---- MODULE Spec2Model ----
(***************************************************************************)
(* A model of gyat, a minimal version-control engine: the content-addressed *)
(* object store (objects.rs, hash.rs), the arena directory tree            *)
(* (dirtree.rs), change detection (cli/observe.rs), commit (cli/track.rs)   *)
(* and checkout (cli/fallback.rs).                                         *)
(*                                                                         *)
(* Conventions.  A path is a sequence of components (<<>> is "." , the     *)
(* repository root, which is also the current directory of every command). *)
(* A byte string is a sequence of integers.  SHA-1 is modelled as an       *)
(* injective function (no collisions), hex encoding as a tagged value.     *)
(* A fallible result is a record with a field ok.                          *)
(***************************************************************************)
EXTENDS Bags, FiniteSets, Integers, Sequences, TLC

VARIABLES
    \* ---- BlobSpec: one file written to the object store and read back
    blob_src,      \* the content of the file handed to the blob writer
    blob_hash,     \* the hash the blob was stored under (NoHash before)
    blob_read,     \* what read_blob returned (NotRead before)
    \* ---- CmpSpec: one call of compare_trees
    cmp_head,      \* the flattened tree of HEAD   (path -> blob hash)
    cmp_target,    \* the flattened tree of the target commit
    cmp_changes,   \* the Changes returned (NoChanges before the call)
    \* ---- ScopeSpec: the filter of observe on path strings
    scope_prev,    \* the paths of the previous commit's tree, as strings
    scope_paths,   \* the input paths of observe, as typed
    scope_comp,    \* the paths kept in prev_comp (NotFiltered before)
    \* ---- TreeSpec: two arena trees built and serialized independently
    trees,         \* 1..2 -> Tree
    roots,         \* 1..2 -> what to_object_file returned (NotRun before)
    \* ---- Spec: a repository driven by its user
    gyatignore,    \* the lines of .gyatignore
    head,          \* .gyat/HEAD: "" or the hex hash of the current commit
    index,         \* .gyat/index: the lines of the staging index
    commits,       \* .gyat/commits: file name (hex hash) -> commit record
    snapshot,      \* history: commit -> (path of its tree -> the file content
                   \*          that was on disk when the commit was made)
    last,          \* history: the last command, its arguments and outcome
    steps,         \* history: how many edits and commands have been run
    \* ---- the working directory and the object store, shared
    wd,            \* path -> Absent | IsDir | RegFile(content)
    files,         \* .gyat/files : file name (hex hash) -> compressed blob
    dirs           \* .gyat/dirs  : file name (hex hash) -> tree content (lines)

blobVars == <<blob_src, blob_hash, blob_read>>

cmpVars == <<cmp_head, cmp_target, cmp_changes>>
scopeVars == <<scope_prev, scope_paths, scope_comp>>

treeVars == <<trees, roots>>

storeVars == <<files, dirs>>

repoVars == <<gyatignore, head, index, commits, snapshot, last, steps>>

vars == <<blobVars, cmpVars, scopeVars, treeVars, repoVars, wd, storeVars>>

(***************************************************************************)
(* Bounds of the model.                                                    *)
(***************************************************************************)
\* The read buffer of digest_file and format_blob_content holds 1024 bytes
\* in the code; the model scales it down so that contents shorter than,
\* equal to and longer than one buffer are all enumerated.
BufSize == 2
\* Longest file content enumerated by BlobSpec.
MaxLen == 4
\* Largest byte value enumerated by BlobSpec (0 is the NUL byte).
MaxByte == 2

(***************************************************************************)
(* Generic helpers.                                                        *)
(***************************************************************************)
SeqsUpTo(S, n) == UNION {[1..k -> S] : k \in 0..n}

EmptyMap == [x \in {} |-> x]

MapPut(m, k, v) == [x \in DOMAIN m \cup {k} |-> IF x = k THEN v ELSE m[x]]

MapDel(m, k) == [x \in DOMAIN m \ {k} |-> m[x]]

Ok(v) == [ok |-> TRUE, val |-> v]

Err == [ok |-> FALSE, val |-> <<>>]

(***************************************************************************)
(* hash.rs                                                                 *)
(***************************************************************************)
\* SHA-1 of a byte string: injective, so the digest is the tagged input.
Sha1(bytes) == <<"sha1", bytes>>

\* hex::encode of a 20-byte digest: the 40-character string.
to_string(hash) == <<"hex", hash>>

get_sha1_string(contents) == to_string(Sha1(contents))

\* The strings of the model: "" is <<>>, "0" is <<"0">>, the hex encoding
\* of a digest is <<"hex", digest>>.
HexLen == 40

StrLen(str) ==
    IF str = <<>> THEN 0 ELSE IF str[1] = "hex" THEN HexLen ELSE 1

\* from_string on the strings of the model: the digest of a hex encoding,
\* an error for anything else
from_string(str) ==
    IF str # <<>> /\ str[1] = "hex" THEN Ok(str[2]) ELSE Err

\* What the read loops of digest_file and format_blob_content hand on: the
\* buffer is zeroed before every read and passed on WHOLE (&buf[..], &buf),
\* so the last, partly filled buffer carries its zero padding along.
ReadChunks(content) ==
    LET n == Len(content)
        chunks == (n + BufSize - 1) \div BufSize
    IN  [i \in 1..(chunks * BufSize) |-> IF i <= n THEN content[i] ELSE 0]

digest_file(content) == Sha1(ReadChunks(content))

(***************************************************************************)
(* objects.rs: blobs                                                       *)
(***************************************************************************)
\* zlib: a lossless pair.
ZlibEncode(bytes) == <<"zlib", bytes>>

ZlibDecode(z) == z[2]

format_blob_content(content) == ZlibEncode(ReadChunks(content))

\* index (1-based) of the last non-zero byte, 0 when there is none
RPositionNonZero(content) ==
    LET nz == {i \in 1..Len(content) : content[i] # 0}
    IN  IF nz = {} THEN 0 ELSE CHOOSE i \in nz : \A j \in nz : j <= i

read_blob(store, hash) ==
    IF to_string(hash) \notin DOMAIN store THEN Err
    ELSE LET content == ZlibDecode(store[to_string(hash)])
             \* rposition(..).unwrap_or(content.len()), 0-based, then take(.. + 1)
             keep == IF RPositionNonZero(content) = 0
                     THEN Len(content) + 1
                     ELSE RPositionNonZero(content)
         IN  Ok(SubSeq(content, 1, IF keep > Len(content) THEN Len(content) ELSE keep))

\* a leaf branch that writes the bytes of the file as they are, over whatever
\* is there
write_blobMutant(store, content) ==
    [hash  |-> digest_file(content),
     store |-> MapPut(store, to_string(digest_file(content)), ZlibEncode(content))]

\* The leaf branch of Tree::to_object_file_recursive: hash the file, compress
\* it, write files/<hash> unless it exists.
write_blob(store, content) ==
    LET hash == digest_file(content)
    IN  [hash  |-> hash,
         store |-> IF to_string(hash) \in DOMAIN store THEN store
                   ELSE MapPut(store, to_string(hash), format_blob_content(content))]

NoHash == <<"none">>

NotRead == [ok |-> FALSE, val |-> <<"not read">>]

(***************************************************************************)
(* The universe of the working directory.                                  *)
(***************************************************************************)
\* The files a user may create.  "d" can be a file or the directory of d/b.
FilePaths == {<<"a">>, <<"d">>, <<"d", "b">>}

\* The contents a user may write: one shorter than the read buffer, one
\* that ends in a NUL byte.
Contents == {<<1>>, <<2, 0>>}

Parent(path) == SubSeq(path, 1, Len(path) - 1)

\* Path::starts_with: component-wise prefix
StartsWith(path, base) ==
    /\ Len(base) <= Len(path)
    /\ SubSeq(path, 1, Len(base)) = base

\* The orders in which a HashMap (or read_dir) may hand out a set of paths:
\* a ranking is a sequence listing every path once; a set is iterated in
\* the order of the ranking.
Perms(S) ==
    {s \in [1..Cardinality(S) -> S] : \A i, j \in 1..Cardinality(S) : i # j => s[i] # s[j]}

\* The orders a HashMap or read_dir may yield its entries in.  d and d/b are
\* never files together, so the orders that keep d in the middle give every
\* relative order of the files that can exist together.
Rankings == {rank \in Perms(FilePaths) : rank[2] = <<"d">>}

Iterate(S, rank) ==
    LET In(x) == x \in S
    IN  SelectSeq(rank, In)

SeqToSet(s) == {s[i] : i \in 1..Len(s)}

(***************************************************************************)
(* The working directory.  wd maps every path that can exist to what is    *)
(* there: nothing, a directory, or a regular file with its content.        *)
(***************************************************************************)
\* every non-empty prefix of a file path
WdPaths == UNION {{SubSeq(p, 1, k) : k \in 1..Len(p)} : p \in FilePaths}

Absent == [kind |-> "none", data |-> <<>>]

IsDir == [kind |-> "dir", data |-> <<>>]

RegFile(content) == [kind |-> "file", data |-> content]

\* Path::components() without the CurDir components
Components(path) ==
    LET NotCur(c) == c # "."
    IN  SelectSeq(path, NotCur)

\* what the file system has at a path relative to the repository root
Stat(fs, path) ==
    LET p == Components(path)
    IN  IF p = <<>> THEN IsDir
        ELSE IF p \in DOMAIN fs THEN fs[p]
        ELSE Absent

(***************************************************************************)
(* dirtree.rs                                                              *)
(***************************************************************************)
\* Option<usize>::None of TreeNode.parent
NoParent == -1

\* TreeNode::new followed by add_parent
TreeNode(filename, parent) ==
    [children |-> EmptyMap, filename |-> filename, parent |-> parent]

is_leaf(node) == DOMAIN node.children = {}

is_valid(node) == node.filename # ""

\* Tree::new: nodes is indexed from 0 as the Vec is
NewTree ==
    [nodes      |-> [i \in {0} |-> TreeNode(".", NoParent)],
     size       |-> 1,
     next_frees |-> EmptyBag]

NodesLen(t) == Cardinality(DOMAIN t.nodes)

only_repo_root(t) == t.size = 0

MinOf(S) == CHOOSE x \in S : \A y \in S : x <= y

MaxOf(S) == CHOOSE x \in S : \A y \in S : y <= x

\* AllocNode that reuses the highest free slot
AllocNodeMutant(t, idx, comp) ==
    IF BagToSet(t.next_frees) = {}
    THEN [t EXCEPT !.nodes = [i \in DOMAIN t.nodes \cup {NodesLen(t)} |->
                                 IF i = NodesLen(t) THEN TreeNode(comp, idx)
                                 ELSE IF i = idx
                                 THEN [t.nodes[i] EXCEPT !.children =
                                          MapPut(t.nodes[i].children, comp, t.size)]
                                 ELSE t.nodes[i]]]
    ELSE [t EXCEPT !.next_frees = t.next_frees (-) SetToBag({MaxOf(BagToSet(t.next_frees))}),
                   !.nodes = [[t.nodes EXCEPT ![MaxOf(BagToSet(t.next_frees))] =
                                  TreeNode(comp, idx)]
                              EXCEPT ![idx].children =
                                  MapPut(t.nodes[idx].children, comp,
                                         MaxOf(BagToSet(t.next_frees)))]]

\* the match on self.next_frees.pop() of add_path: a node for comp under idx
AllocNode(t, idx, comp) ==
    IF BagToSet(t.next_frees) = {}
    THEN \* push at the end of the arena; the child is linked as index size
         LET pushed == [i \in DOMAIN t.nodes \cup {NodesLen(t)} |->
                           IF i = NodesLen(t) THEN TreeNode(comp, idx) ELSE t.nodes[i]]
         IN  [t EXCEPT !.nodes = [pushed EXCEPT ![idx].children =
                                     MapPut(pushed[idx].children, comp, t.size)]]
    ELSE \* reuse the lowest free slot
         LET s == MinOf(BagToSet(t.next_frees))
             stored == [t.nodes EXCEPT ![s] = TreeNode(comp, idx)]
         IN  [t EXCEPT !.next_frees = t.next_frees (-) SetToBag({s}),
                       !.nodes = [stored EXCEPT ![idx].children =
                                     MapPut(stored[idx].children, comp, s)]]

\* lines 314-319: the children of the final node are evicted
EvictChildren(t, idx) ==
    LET kids == t.nodes[idx].children
        freed == {kids[c] : c \in DOMAIN kids}
        \* one push per entry of the child map
        pushes == [i \in freed |-> Cardinality({c \in DOMAIN kids : kids[c] = i})]
    IN  [nodes      |-> [i \in DOMAIN t.nodes |->
                            [children |-> IF i = idx THEN EmptyMap ELSE t.nodes[i].children,
                             filename |-> IF i \in freed THEN "" ELSE t.nodes[i].filename,
                             parent   |-> t.nodes[i].parent]],
         size       |-> t.size - Cardinality(DOMAIN kids),
         next_frees |-> t.next_frees (+) pushes]

\* the for loop of add_path over the components from position k on, and
\* what follows it.  ret is the value returned; panic an index out of the
\* arena; allocs lists, per node the loop allocated, the tree before and
\* after the match on next_frees.pop() and the component stored.
RECURSIVE AddPathWalk(_, _, _, _, _, _)
AddPathWalk(t, comps, k, idx, added, allocs) ==
    IF idx \notin DOMAIN t.nodes
    THEN [tree |-> t, ret |-> FALSE, panic |-> TRUE, allocs |-> allocs]
    ELSE IF k > Len(comps)
    THEN IF \E c \in DOMAIN t.nodes[idx].children :
               t.nodes[idx].children[c] \notin DOMAIN t.nodes
         THEN [tree |-> t, ret |-> FALSE, panic |-> TRUE, allocs |-> allocs]
         ELSE [tree |-> EvictChildren(t, idx), ret |-> added, panic |-> FALSE,
               allocs |-> allocs]
    ELSE IF comps[k] \notin DOMAIN t.nodes[idx].children
    THEN AddPathWalk([AllocNode(t, idx, comps[k]) EXCEPT !.size = t.size + 1],
                     comps, k + 1, t.size, TRUE,
                     Append(allocs, [before |-> t, after |-> AllocNode(t, idx, comps[k]),
                                     comp |-> comps[k], under |-> idx]))
    ELSE IF t.nodes[idx].children[comps[k]] \notin DOMAIN t.nodes
    THEN [tree |-> t, ret |-> FALSE, panic |-> TRUE, allocs |-> allocs]
    ELSE IF is_leaf(t.nodes[t.nodes[idx].children[comps[k]]])
    THEN [tree |-> t, ret |-> FALSE, panic |-> FALSE, allocs |-> allocs]
    ELSE AddPathWalk(t, comps, k + 1, t.nodes[idx].children[comps[k]], added, allocs)

\* add_path that clears the child map of the root when the walk fails
add_pathMutant(t, path, exists, same_root) ==
    IF ~exists \/ ~same_root \/ only_repo_root(t)
    THEN [tree |-> t, ret |-> FALSE, panic |-> FALSE, allocs |-> <<>>]
    ELSE IF Components(path) = <<>>
    THEN [tree |-> [t EXCEPT !.size = 0], ret |-> TRUE, panic |-> FALSE, allocs |-> <<>>]
    ELSE IF AddPathWalk(t, Components(path), 1, 0, FALSE, <<>>).ret
    THEN AddPathWalk(t, Components(path), 1, 0, FALSE, <<>>)
    ELSE [AddPathWalk(t, Components(path), 1, 0, FALSE, <<>>) EXCEPT
             !.tree = EvictChildren(AddPathWalk(t, Components(path), 1, 0, FALSE,
                                                <<>>).tree, 0)]

\* add_path without the check for the whole-root mode
add_pathUnchecked(t, path, exists, same_root) ==
    IF ~exists \/ ~same_root
    THEN [tree |-> t, ret |-> FALSE, panic |-> FALSE, allocs |-> <<>>]
    ELSE IF Components(path) = <<>>
    THEN [tree |-> [t EXCEPT !.size = 0], ret |-> TRUE, panic |-> FALSE, allocs |-> <<>>]
    ELSE AddPathWalk(t, Components(path), 1, 0, FALSE, <<>>)

\* Tree::add_path.  exists: path.exists(); same_root: the path lies in the
\* repository of the tree.
add_path(t, path, exists, same_root) ==
    IF ~exists \/ ~same_root \/ only_repo_root(t)
    THEN [tree |-> t, ret |-> FALSE, panic |-> FALSE, allocs |-> <<>>]
    ELSE IF Components(path) = <<>>
    THEN [tree |-> [t EXCEPT !.size = 0], ret |-> TRUE, panic |-> FALSE, allocs |-> <<>>]
    ELSE AddPathWalk(t, Components(path), 1, 0, FALSE, <<>>)

\* the loop of contains_path without the return at a leaf
RECURSIVE ContainsWalkMutant(_, _, _, _)
ContainsWalkMutant(t, comps, k, idx) ==
    IF idx \notin DOMAIN t.nodes THEN [ret |-> FALSE, panic |-> TRUE]
    ELSE IF k > Len(comps) THEN [ret |-> TRUE, panic |-> FALSE]
    ELSE IF comps[k] \notin DOMAIN t.nodes[idx].children
    THEN [ret |-> FALSE, panic |-> FALSE]
    ELSE ContainsWalkMutant(t, comps, k + 1, t.nodes[idx].children[comps[k]])

\* the loop of contains_path over the components from position k on
RECURSIVE ContainsWalk(_, _, _, _)
ContainsWalk(t, comps, k, idx) ==
    IF idx \notin DOMAIN t.nodes THEN [ret |-> FALSE, panic |-> TRUE]
    ELSE IF k > Len(comps) THEN [ret |-> TRUE, panic |-> FALSE]
    ELSE IF is_leaf(t.nodes[idx]) THEN [ret |-> TRUE, panic |-> FALSE]
    ELSE IF comps[k] \notin DOMAIN t.nodes[idx].children
    THEN [ret |-> FALSE, panic |-> FALSE]
    ELSE ContainsWalk(t, comps, k + 1, t.nodes[idx].children[comps[k]])

\* Tree::contains_path.  same_root: the path does not lie in another
\* repository.
contains_path(t, path, same_root) ==
    IF ~same_root \/ only_repo_root(t) THEN [ret |-> FALSE, panic |-> FALSE]
    ELSE ContainsWalk(t, Components(path), 1, 0)

\* Tree::relative_path.  fuel bounds the walk over the parent links; the
\* code loops for ever where the model returns <<"...">>.
RECURSIVE RelPathWalk(_, _, _, _)
RelPathWalk(t, curr, buf, fuel) ==
    IF curr.parent = NoParent \/ curr.parent = 0 THEN buf
    ELSE IF fuel = 0 \/ curr.parent \notin DOMAIN t.nodes THEN <<"...">>
    ELSE LET up == t.nodes[curr.parent]
         IN  RelPathWalk(t, up,
                         IF up.filename = "" THEN buf ELSE <<up.filename>> \o buf,
                         fuel - 1)

relative_path(t, node) ==
    RelPathWalk(t, node, IF node.filename = "" THEN <<>> ELSE <<node.filename>>,
                NodesLen(t))

\* Tree::leaves
leaves(t) ==
    {relative_path(t, t.nodes[i]) :
        i \in {j \in DOMAIN t.nodes : is_leaf(t.nodes[j]) /\ is_valid(t.nodes[j])}}

\* The names a directory can hold, and the orders in which a child map
\* (a HashMap) can be iterated.
Names == UNION {{p[k] : k \in 1..Len(p)} : p \in FilePaths}

\* The orders of a node's child map: only a and d are ever siblings.
NameRankings == {rank \in Perms(Names) : rank[2] = "b"}

\* Tree::to_object_file_recursive.  st holds the two object directories and
\* trace, the store after each write made so far; rank is the iteration
\* order of the child maps, fuel the recursion depth left (the code
\* overflows its stack where the model runs out of fuel).
\* Returns ok, the hash, and the store with everything written so far.
RECURSIVE ToObjNode(_, _, _, _, _, _)
RECURSIVE ToObjChildren(_, _, _, _, _, _, _, _, _)
\* to_object_file_recursive that returns the hash of a leaf without writing
\* its blob
ToObjNodeMutant(t, idx, fs, st, rank, fuel) ==
    IF fuel = 0 \/ Stat(fs, relative_path(t, t.nodes[idx])) = Absent
    THEN [ok |-> FALSE, hash |-> NoHash, files |-> st.files, dirs |-> st.dirs,
          trace |-> st.trace]
    ELSE IF is_leaf(t.nodes[idx])
    THEN IF Stat(fs, relative_path(t, t.nodes[idx])) = IsDir
         THEN [ok |-> FALSE, hash |-> NoHash, files |-> st.files, dirs |-> st.dirs,
               trace |-> st.trace]
         ELSE [ok |-> TRUE,
               hash |-> digest_file(Stat(fs, relative_path(t, t.nodes[idx])).data),
               files |-> st.files, dirs |-> st.dirs, trace |-> st.trace]
    ELSE ToObjChildren(t, idx, Iterate(DOMAIN t.nodes[idx].children, rank), 1,
                       fs, st, rank, <<>>, fuel)

ToObjNode(t, idx, fs, st, rank, fuel) ==
    LET node == t.nodes[idx]
        source == Stat(fs, relative_path(t, node))
    IN  IF fuel = 0 \/ source = Absent
        THEN [ok |-> FALSE, hash |-> NoHash, files |-> st.files, dirs |-> st.dirs,
              trace |-> st.trace]
        ELSE IF is_leaf(node)
        THEN IF source = IsDir
             THEN [ok |-> FALSE, hash |-> NoHash, files |-> st.files, dirs |-> st.dirs,
                   trace |-> st.trace]
             ELSE LET w == write_blob(st.files, source.data)
                  IN  [ok |-> TRUE, hash |-> w.hash, files |-> w.store, dirs |-> st.dirs,
                       trace |-> Append(st.trace, [files |-> w.store, dirs |-> st.dirs])]
        ELSE ToObjChildren(t, idx, Iterate(DOMAIN node.children, rank), 1,
                           fs, st, rank, <<>>, fuel)

\* the tree object tree_content written to the store st, unless it is there
WriteTree(st, tree_content) ==
    IF to_string(Sha1(tree_content)) \in DOMAIN st.dirs THEN st.dirs
    ELSE MapPut(st.dirs, to_string(Sha1(tree_content)), tree_content)

\* the loop over node.children from position k of the iteration on, then
\* the write of the tree object
ToObjChildren(t, idx, order, k, fs, st, rank, tree_content, fuel) ==
    IF k > Len(order)
    THEN [ok |-> TRUE, hash |-> Sha1(tree_content), files |-> st.files,
          dirs |-> WriteTree(st, tree_content),
          trace |-> Append(st.trace, [files |-> st.files,
                                      dirs |-> WriteTree(st, tree_content)])]
    ELSE LET child == t.nodes[idx].children[order[k]]
             r == ToObjNode(t, child, fs, st, rank, fuel - 1)
             line == <<IF is_leaf(t.nodes[child]) THEN "blob" ELSE "tree",
                       to_string(r.hash), t.nodes[child].filename>>
         IN  IF ~r.ok THEN r
             ELSE ToObjChildren(t, idx, order, k + 1, fs,
                                [files |-> r.files, dirs |-> r.dirs, trace |-> r.trace],
                                rank, Append(tree_content, line), fuel)

\* Tree::to_object_file
to_object_file(t, fs, st, rank) == ToObjNode(t, 0, fs, st, rank, NodesLen(t) + 1)

(***************************************************************************)
(* objects.rs: trees and commits                                           *)
(***************************************************************************)
\* read_tree_content: the FileObjects of a tree object.  A line of a tree
\* object is <<"blob" | "tree", hex hash, name>>.
read_tree_content(tree_store, tree_hash) ==
    IF to_string(tree_hash) \notin DOMAIN tree_store THEN Err
    ELSE LET lines == tree_store[to_string(tree_hash)]
         IN  IF \E i \in 1..Len(lines) :
                    \/ lines[i][1] \notin {"blob", "tree"}
                    \/ ~from_string(lines[i][2]).ok
             THEN Err
             ELSE Ok([i \in 1..Len(lines) |->
                        [ftype     |-> lines[i][1],
                         hash      |-> from_string(lines[i][2]).val,
                         component |-> lines[i][3]]])

\* get_blobs_from_root: the stack loop, as the set of (path, hash) pairs
\* under the tree tree_hash, each path prefixed by base.
RECURSIVE BlobsUnder(_, _, _)
BlobsUnder(tree_store, tree_hash, base) ==
    LET r == read_tree_content(tree_store, tree_hash)
    IN  IF ~r.ok THEN Err
        ELSE LET sub == [i \in 1..Len(r.val) |->
                            IF r.val[i].ftype = "blob"
                            THEN Ok({<<base \o <<r.val[i].component>>, r.val[i].hash>>})
                            ELSE BlobsUnder(tree_store, r.val[i].hash,
                                            base \o <<r.val[i].component>>)]
             IN  IF \E i \in 1..Len(sub) : ~sub[i].ok THEN Err
                 ELSE Ok(UNION {sub[i].val : i \in 1..Len(sub)})

get_blobs_from_root(tree_store, root_hash) ==
    LET r == BlobsUnder(tree_store, root_hash, <<>>)
    IN  IF ~r.ok THEN Err
        ELSE Ok([p \in {x[1] : x \in r.val} |->
                    (CHOOSE x \in r.val : x[1] = p)[2]])

\* a commit record that never names its parent
CommitContentMutant(parent_field, root_hash, message, date, observed_list) ==
    << <<"Parent", <<"0">>>>,
       <<"Tree", to_string(root_hash)>>,
       <<"Message", message>>,
       <<"Date", date>>,
       <<"Changes">> >>
    \o [i \in 1..Len(observed_list) |-> <<observed_list[i].change, observed_list[i].path>>]

\* The text of a commit record, line by line (track.rs, lines 68-79).
\* parent_field is the hex string of the parent, or "0".
CommitContent(parent_field, root_hash, message, date, observed_list) ==
    << <<"Parent", parent_field>>,
       <<"Tree", to_string(root_hash)>>,
       <<"Message", message>>,
       <<"Date", date>>,
       <<"Changes">> >>
    \o [i \in 1..Len(observed_list) |-> <<observed_list[i].change, observed_list[i].path>>]

\* a Parent field shorter than this is read as "no parent"
MinParentLen == 20

\* read_commit_content: parent (NoHash for None) and root of a commit
read_commit_content(commit_store, commit_hash) ==
    IF to_string(commit_hash) \notin DOMAIN commit_store THEN Err
    ELSE LET text == commit_store[to_string(commit_hash)]
             field == text[1][2]
         IN  IF StrLen(field) < MinParentLen
             THEN Ok([parent |-> NoHash, root |-> from_string(text[2][2]).val])
             ELSE IF ~from_string(field).ok THEN Err
             ELSE Ok([parent |-> from_string(field).val,
                      root   |-> from_string(text[2][2]).val])

(***************************************************************************)
(* fs.rs                                                                   *)
(***************************************************************************)
\* Option<&String>::None of the commit_hash argument
NoArg == <<"None">>

\* get_root_tree_hash: val is the hex string of the root tree, some is
\* FALSE for Ok(None).  head_file is the content of .gyat/HEAD.
get_root_tree_hash(commit_store, head_file, commit_arg) ==
    LET commit_hash == IF commit_arg = NoArg THEN head_file ELSE commit_arg
    IN  IF commit_hash = <<>> THEN [ok |-> TRUE, some |-> FALSE, val |-> <<>>]
        ELSE IF commit_hash \notin DOMAIN commit_store
        THEN [ok |-> FALSE, some |-> FALSE, val |-> <<>>]
        ELSE LET text == commit_store[commit_hash]
                 tree_lines == {i \in 1..Len(text) : text[i][1] = "Tree"}
             IN  IF tree_lines = {} THEN [ok |-> FALSE, some |-> FALSE, val |-> <<>>]
                 ELSE [ok |-> TRUE, some |-> TRUE, val |-> text[MinOf(tree_lines)][2]]

\* get_files_and_syms: the regular files at or under path, in the order of
\* the breadth-first traverse_path (level by level; rank orders the entries
\* read_dir hands out within a level).
get_files_and_syms(fs, path, rank) ==
    LET found == {p \in DOMAIN fs : fs[p].kind = "file" /\ StartsWith(p, Components(path))}
        Level(k) == Iterate({p \in found : Len(p) = k}, rank)
    IN  Level(1) \o Level(2) \o Level(3)

\* read_index: a line of the staging index is <<perm, hex hash, path, kind>>
read_index(index_file) ==
    IF \E i \in 1..Len(index_file) :
           \/ ~from_string(index_file[i][2]).ok
           \/ index_file[i][4] \notin {"New", "Mod", "Del"}
    THEN Err
    ELSE Ok([i \in 1..Len(index_file) |->
                [perm   |-> index_file[i][1],
                 hash   |-> from_string(index_file[i][2]).val,
                 path   |-> index_file[i][3],
                 change |-> index_file[i][4]]])

(***************************************************************************)
(* cli/fallback.rs: compare_trees                                          *)
(***************************************************************************)
\* compare_trees without its third loop
compare_treesMutant(head_blobs, commit_blobs, rank) ==
    LET commit_iter == Iterate(DOMAIN commit_blobs, rank)
        Added(p)    == p \notin DOMAIN head_blobs
        Modified(p) == p \in DOMAIN head_blobs /\ head_blobs[p] # commit_blobs[p]
        WithHash(s) == [i \in 1..Len(s) |-> <<s[i], commit_blobs[s[i]]>>]
    IN  [to_add    |-> WithHash(SelectSeq(commit_iter, Added)),
         to_modify |-> WithHash(SelectSeq(commit_iter, Modified)),
         to_delete |-> <<>>]

\* rank is the iteration order of the two HashMaps.
compare_trees(head_blobs, commit_blobs, rank) ==
    LET commit_iter == Iterate(DOMAIN commit_blobs, rank)
        head_iter   == Iterate(DOMAIN head_blobs, rank)
        Added(p)    == p \notin DOMAIN head_blobs
        Modified(p) == p \in DOMAIN head_blobs /\ head_blobs[p] # commit_blobs[p]
        Deleted(p)  == p \notin DOMAIN commit_blobs
        WithHash(s) == [i \in 1..Len(s) |-> <<s[i], commit_blobs[s[i]]>>]
    IN  [to_add    |-> WithHash(SelectSeq(commit_iter, Added)),
         to_modify |-> WithHash(SelectSeq(commit_iter, Modified)),
         to_delete |-> SelectSeq(head_iter, Deleted)]

(***************************************************************************)
(* cli/observe.rs                                                          *)
(*                                                                         *)
(* A repository state is a record R with the fields wd, gyatignore, head,  *)
(* index, commits, files, dirs.  Every command runs at the repository root.*)
(***************************************************************************)
\* The matcher built from "^.gyat" and the lines of .gyatignore.  A line of
\* the model is one literal character; it matches every path that holds it
\* (file names are single characters).  "^.gyat" matches no path of the
\* model.
is_match(ignore_lines, path) == \E pat \in ignore_lines : pat \in SeqToSet(path)

\* b'1': the file is writable
Writable == 1

\* observe_single_path
observe_single_path(fs, path) ==
    [perm |-> Writable, hash |-> digest_file(fs[path].data), path |-> path]

\* write_blob_index: one line of the staging index
IndexLine(oc, change) == <<oc.perm, to_string(oc.hash), oc.path, change>>

\* the loop of observe over the input paths, from position k on
RECURSIVE ObserveList(_, _, _, _)
ObserveList(R, paths, k, rank) ==
    IF k > Len(paths) THEN <<>>
    ELSE LET subdirs == get_files_and_syms(R.wd, paths[k], rank)
             Kept(p) == ~is_match(R.gyatignore, p)
             kept == SelectSeq(subdirs, Kept)
         IN  [i \in 1..Len(kept) |-> observe_single_path(R.wd, kept[i])]
             \o ObserveList(R, paths, k + 1, rank)

\* the first loop of write_changes, from position k on: the lines written
\* and what is left of prev_comp
RECURSIVE WriteChangesLoop(_, _, _, _)
WriteChangesLoop(observe_list, k, prev_comp, written) ==
    IF k > Len(observe_list) THEN [written |-> written, prev_comp |-> prev_comp]
    ELSE LET oc == observe_list[k]
         IN  IF oc.path \notin DOMAIN prev_comp
             THEN WriteChangesLoop(observe_list, k + 1, prev_comp,
                                   Append(written, IndexLine(oc, "New")))
             ELSE IF oc.hash # prev_comp[oc.path]
             THEN WriteChangesLoop(observe_list, k + 1, MapDel(prev_comp, oc.path),
                                   Append(written, IndexLine(oc, "Mod")))
             ELSE WriteChangesLoop(observe_list, k + 1, MapDel(prev_comp, oc.path),
                                   written)

\* write_changes; rank is the iteration order of what is left of prev_comp
write_changes(observe_list, prev_comp, rank) ==
    LET w == WriteChangesLoop(observe_list, 1, prev_comp, <<>>)
        left == Iterate(DOMAIN w.prev_comp, rank)
    IN  w.written \o
        [i \in 1..Len(left) |->
            IndexLine([perm |-> Writable, hash |-> w.prev_comp[left[i]], path |-> left[i]],
                      "Del")]

\* the filter of observe that lets every blob of the previous commit through
InScopeMutant(path, paths) == TRUE

\* the filter of observe on the blobs of the previous commit
InScope(path, paths) == \E i \in 1..Len(paths) : StartsWith(path, Components(paths[i]))

\* observe that opens the staging index to append, not to truncate
observeMutant(R, paths, rank) ==
    LET observe_list == ObserveList(R, paths, 1, rank)
        prev_root == get_root_tree_hash(R.commits, R.head, NoArg)
    IN  IF ~prev_root.ok THEN [ok |-> FALSE, R |-> R]
        ELSE IF ~prev_root.some
        THEN [ok |-> TRUE,
              R  |-> [R EXCEPT !.index = R.index \o
                         [i \in 1..Len(observe_list) |-> IndexLine(observe_list[i], "New")]]]
        ELSE LET blobs == get_blobs_from_root(R.dirs, from_string(prev_root.val).val)
             IN  IF ~blobs.ok THEN [ok |-> FALSE, R |-> R]
                 ELSE LET prev_comp ==
                              [p \in {q \in DOMAIN blobs.val : InScope(q, paths)} |->
                                  blobs.val[p]]
                      IN  [ok |-> TRUE,
                           R  |-> [R EXCEPT !.index = R.index \o
                                      write_changes(observe_list, prev_comp, rank)]]

\* observe: the staging index is truncated first and then written
observe(R, paths, rank) ==
    LET observe_list == ObserveList(R, paths, 1, rank)
        prev_root == get_root_tree_hash(R.commits, R.head, NoArg)
    IN  IF ~prev_root.ok THEN [ok |-> FALSE, R |-> [R EXCEPT !.index = <<>>]]
        ELSE IF ~prev_root.some
        THEN [ok |-> TRUE,
              R  |-> [R EXCEPT !.index =
                         [i \in 1..Len(observe_list) |-> IndexLine(observe_list[i], "New")]]]
        ELSE LET blobs == get_blobs_from_root(R.dirs, from_string(prev_root.val).val)
             IN  IF ~blobs.ok THEN [ok |-> FALSE, R |-> [R EXCEPT !.index = <<>>]]
                 ELSE LET prev_comp ==
                              [p \in {q \in DOMAIN blobs.val : InScope(q, paths)} |->
                                  blobs.val[p]]
                      IN  [ok |-> TRUE,
                           R  |-> [R EXCEPT !.index =
                                      write_changes(observe_list, prev_comp, rank)]]

(***************************************************************************)
(* cli/track.rs                                                            *)
(***************************************************************************)
\* the loop of track over the staging entries (lines 39-53 and 58-60), from
\* position k on.  prev is what is left of prev_blobs (a set of paths).
\* Without a parent commit every entry is added, whatever its kind.
RECURSIVE AddEntries(_, _, _, _, _, _)
AddEntries(t, fs, observed_list, k, prev, has_parent) ==
    IF k > Len(observed_list) THEN [tree |-> t, prev |-> prev, panic |-> FALSE]
    ELSE LET entry == observed_list[k]
             a == IF has_parent /\ entry.change = "Del"
                  THEN [tree |-> t, ret |-> FALSE, panic |-> FALSE]
                  ELSE add_path(t, entry.path, Stat(fs, entry.path) # Absent, TRUE)
         IN  IF a.panic THEN [tree |-> a.tree, prev |-> prev, panic |-> TRUE]
             ELSE AddEntries(a.tree, fs, observed_list, k + 1,
                             IF entry.change = "New" THEN prev ELSE prev \ {entry.path},
                             has_parent)

\* the loop over the blobs left of the previous commit (lines 54-56)
RECURSIVE AddBlobsLeft(_, _, _, _)
AddBlobsLeft(t, fs, left, k) ==
    IF k > Len(left) THEN [tree |-> t, panic |-> FALSE]
    ELSE LET a == add_path(t, left[k], Stat(fs, left[k]) # Absent, TRUE)
         IN  IF a.panic THEN [tree |-> a.tree, panic |-> TRUE]
             ELSE AddBlobsLeft(a.tree, fs, left, k + 1)

\* "" of .gyat/HEAD
NoHead == <<>>

\* "0" of the Parent field
ZeroParent == <<"0">>

\* the three writes with HEAD written before the commit record
WriteStepsMutant(R2, commit_content) ==
    << [files |-> R2.files, dirs |-> R2.dirs, commits |-> R2.commits,
        head |-> get_sha1_string(commit_content), index |-> R2.index],
       [files |-> R2.files, dirs |-> R2.dirs,
        commits |-> MapPut(R2.commits, get_sha1_string(commit_content), commit_content),
        head |-> get_sha1_string(commit_content), index |-> R2.index],
       [files |-> R2.files, dirs |-> R2.dirs,
        commits |-> MapPut(R2.commits, get_sha1_string(commit_content), commit_content),
        head |-> get_sha1_string(commit_content), index |-> <<>>] >>

\* the three writes that end track (lines 80-82), each with the store, HEAD
\* and the staging index as it leaves them: the commit record, then HEAD,
\* then the emptied staging index
WriteSteps(R2, commit_content) ==
    << [files |-> R2.files, dirs |-> R2.dirs,
        commits |-> MapPut(R2.commits, get_sha1_string(commit_content), commit_content),
        head |-> R2.head, index |-> R2.index],
       [files |-> R2.files, dirs |-> R2.dirs,
        commits |-> MapPut(R2.commits, get_sha1_string(commit_content), commit_content),
        head |-> get_sha1_string(commit_content), index |-> R2.index],
       [files |-> R2.files, dirs |-> R2.dirs,
        commits |-> MapPut(R2.commits, get_sha1_string(commit_content), commit_content),
        head |-> get_sha1_string(commit_content), index |-> <<>>] >>

\* TrackWrite that leaves the staging index as it was
TrackWriteMutant(R2, commit_content) ==
    [result |-> "committed",
     R |-> [R2 EXCEPT !.commits = WriteSteps(R2, commit_content)[2].commits,
                      !.head = WriteSteps(R2, commit_content)[2].head,
                      !.writes = R2.writes \o SubSeq(WriteSteps(R2, commit_content), 1, 2)]]

\* the end of track (lines 80-83): the commit record, HEAD and the emptied
\* staging index are written, and the repository is as the last write
\* leaves it.  writes gets the three steps.
TrackWrite(R2, commit_content) ==
    [result |-> "committed",
     R |-> [R2 EXCEPT !.commits = WriteSteps(R2, commit_content)[3].commits,
                      !.head = WriteSteps(R2, commit_content)[3].head,
                      !.index = WriteSteps(R2, commit_content)[3].index,
                      !.writes = R2.writes \o WriteSteps(R2, commit_content)]]

\* the stores of the trace of to_object_file, each with the commit records,
\* HEAD and the staging index of R1, which to_object_file leaves alone
StoreSteps(trace, R1) ==
    [i \in 1..Len(trace) |->
        [files |-> trace[i].files, dirs |-> trace[i].dirs, commits |-> R1.commits,
         head |-> R1.head, index |-> R1.index]]

\* track from the result ser of to_object_file on (lines 62-83)
TrackSerialized(R1, observed_list, ser, message, date) ==
    IF ~ser.ok
    THEN [result |-> "err",
          R |-> [R1 EXCEPT !.files = ser.files, !.dirs = ser.dirs,
                           !.writes = StoreSteps(ser.trace, R1)]]
    ELSE TrackWrite([R1 EXCEPT !.files = ser.files, !.dirs = ser.dirs,
                               !.writes = StoreSteps(ser.trace, R1)],
                    CommitContent(IF R1.head # NoHead THEN R1.head ELSE ZeroParent,
                                  ser.hash, message, date, observed_list))

\* track from the tree b built of the staging entries and the blobs left on
TrackLeft(R1, observed_list, b, message, name_rank, date) ==
    IF b.panic THEN [result |-> "panic", R |-> R1]
    ELSE TrackSerialized(R1, observed_list,
                         to_object_file(b.tree, R1.wd,
                                        [files |-> R1.files, dirs |-> R1.dirs,
                                         trace |-> <<>>], name_rank),
                         message, date)

\* track from the result e of the loop over the staging entries on
TrackEntries(R1, observed_list, e, message, rank, name_rank, date) ==
    IF e.panic THEN [result |-> "panic", R |-> R1]
    ELSE TrackLeft(R1, observed_list,
                   AddBlobsLeft(e.tree, R1.wd, Iterate(e.prev, rank), 1),
                   message, name_rank, date)

\* track from the blobs of the parent commit on (line 38)
TrackPrev(R1, observed_list, prev_blobs, message, rank, name_rank, date) ==
    IF ~prev_blobs.ok THEN [result |-> "err", R |-> R1]
    ELSE TrackEntries(R1, observed_list,
                      AddEntries(NewTree, R1.wd, observed_list, 1,
                                 DOMAIN prev_blobs.val, TRUE),
                      message, rank, name_rank, date)

\* track from the parent commit record pc on (line 37)
TrackParent(R1, observed_list, pc, message, rank, name_rank, date) ==
    IF ~pc.ok THEN [result |-> "panic", R |-> R1]
    ELSE TrackPrev(R1, observed_list, get_blobs_from_root(R1.dirs, pc.val.root),
                   message, rank, name_rank, date)

\* TrackIndex without the return on an empty staging index
TrackIndexMutant(R1, observed, message, rank, name_rank, date) ==
    IF ~observed.ok THEN [result |-> "err", R |-> R1]
    ELSE IF R1.head = NoHead
    THEN TrackEntries(R1, observed.val,
                      AddEntries(NewTree, R1.wd, observed.val, 1, {}, FALSE),
                      message, rank, name_rank, date)
    ELSE IF ~from_string(R1.head).ok THEN [result |-> "panic", R |-> R1]
    ELSE TrackParent(R1, observed.val,
                     read_commit_content(R1.commits, from_string(R1.head).val),
                     message, rank, name_rank, date)

\* track from the staging entries read on (lines 23-61).  Without a parent
\* commit no blob is left over after the entries.
TrackIndex(R1, observed, message, rank, name_rank, date) ==
    IF ~observed.ok THEN [result |-> "err", R |-> R1]
    ELSE IF observed.val = <<>> THEN [result |-> "nochange", R |-> R1]
    ELSE IF R1.head = NoHead
    THEN TrackEntries(R1, observed.val,
                      AddEntries(NewTree, R1.wd, observed.val, 1, {}, FALSE),
                      message, rank, name_rank, date)
    ELSE IF ~from_string(R1.head).ok THEN [result |-> "panic", R |-> R1]
    ELSE TrackParent(R1, observed.val,
                     read_commit_content(R1.commits, from_string(R1.head).val),
                     message, rank, name_rank, date)

\* track from the result o of the observe run on
TrackObserved(o, message, rank, name_rank, date) ==
    IF ~o.ok THEN [result |-> "err", R |-> o.R]
    ELSE TrackIndex(o.R, read_index(o.R.index), message, rank, name_rank, date)

\* track.  rank: the iteration order of prev_blobs and of the observe run
\* for track_all; name_rank: the iteration order of the child maps of the
\* tree; date: the formatted local time.  result is "nochange" (Ok, "No
\* changes found"), "committed" (Ok), "err" or "panic".
track(R, message, track_all, rank, name_rank, date) ==
    TrackObserved(IF track_all THEN observe(R, <<<<".">>>>, rank)
                  ELSE [ok |-> TRUE, R |-> R],
                  message, rank, name_rank, date)

(***************************************************************************)
(* cli/fallback.rs: process_change, fallback                               *)
(***************************************************************************)
Prefixes(path) == {SubSeq(path, 1, k) : k \in 1..Len(path)}

\* std::fs::create_dir_all
create_dir_all(fs, dir) ==
    IF \E q \in Prefixes(dir) : Stat(fs, q).kind = "file" THEN Err
    ELSE Ok([p \in DOMAIN fs |-> IF p \in Prefixes(dir) THEN IsDir ELSE fs[p]])

\* File::create and std::fs::write: the file is created or overwritten
write_file(fs, path, content) ==
    IF Stat(fs, Parent(path)) # IsDir \/ Stat(fs, path) = IsDir THEN Err
    ELSE Ok([fs EXCEPT ![path] = RegFile(content)])

\* std::fs::remove_dir: only a directory that holds nothing
remove_dir(fs, dir) ==
    IF dir = <<>> \/ Stat(fs, dir) # IsDir
       \/ \E p \in DOMAIN fs : Len(p) > Len(dir) /\ StartsWith(p, dir) /\ fs[p] # Absent
    THEN Err
    ELSE Ok([fs EXCEPT ![dir] = Absent])

\* cleanup_empty_dirs that removes the directory and does not go upward
cleanup_empty_dirsMutant(fs, dir) ==
    IF remove_dir(fs, dir).ok THEN remove_dir(fs, dir).val ELSE fs

RECURSIVE cleanup_empty_dirs(_, _)
cleanup_empty_dirs(fs, dir) ==
    LET r == remove_dir(fs, dir)
    IN  IF r.ok THEN cleanup_empty_dirs(r.val, Parent(dir)) ELSE fs

\* one round of the first loop of process_change
AddOne(fs, blob_store, path, hash) ==
    LET made == create_dir_all(fs, Parent(path))
        created == IF made.ok THEN write_file(made.val, path, <<>>) ELSE Err
        content == read_blob(blob_store, hash)
    IN  IF ~made.ok THEN [ok |-> FALSE, fs |-> fs]
        ELSE IF ~created.ok THEN [ok |-> FALSE, fs |-> made.val]
        ELSE IF ~content.ok THEN [ok |-> FALSE, fs |-> created.val]
        ELSE [ok |-> TRUE, fs |-> write_file(created.val, path, content.val).val]

\* one round of the second loop
ModifyOne(fs, blob_store, path, hash) ==
    LET content == read_blob(blob_store, hash)
        made == create_dir_all(fs, Parent(path))
        created == IF made.ok THEN write_file(made.val, path, <<>>) ELSE Err
    IN  IF ~content.ok \/ ~made.ok THEN [ok |-> FALSE, fs |-> fs]
        ELSE IF ~created.ok THEN [ok |-> FALSE, fs |-> made.val]
        ELSE [ok |-> TRUE, fs |-> write_file(created.val, path, content.val).val]

\* one round of the third loop
DeleteOne(fs, path) ==
    IF Stat(fs, path) = Absent THEN [ok |-> TRUE, fs |-> fs]
    ELSE IF Stat(fs, path) = IsDir THEN [ok |-> FALSE, fs |-> fs]
    ELSE [ok |-> TRUE,
          fs |-> cleanup_empty_dirs([fs EXCEPT ![path] = Absent], Parent(path))]

\* process_change from round k of loop phase (1: to_add, 2: to_modify,
\* 3: to_delete) on
RECURSIVE ProcessFrom(_, _, _, _, _)
ProcessFrom(fs, blob_store, changes, phase, k) ==
    LET list == IF phase = 1 THEN changes.to_add
                ELSE IF phase = 2 THEN changes.to_modify ELSE changes.to_delete
    IN  IF phase > 3 THEN [ok |-> TRUE, fs |-> fs]
        ELSE IF k > Len(list) THEN ProcessFrom(fs, blob_store, changes, phase + 1, 1)
        ELSE LET r == IF phase = 1 THEN AddOne(fs, blob_store, list[k][1], list[k][2])
                      ELSE IF phase = 2 THEN ModifyOne(fs, blob_store, list[k][1], list[k][2])
                      ELSE DeleteOne(fs, list[k])
             IN  IF ~r.ok THEN r
                 ELSE ProcessFrom(r.fs, blob_store, changes, phase, k + 1)

process_change(fs, blob_store, changes) == ProcessFrom(fs, blob_store, changes, 1, 1)

\* get_blobs_from_head and get_blobs_from_commit
get_blobs_from(R, commit_arg) ==
    LET root == get_root_tree_hash(R.commits, R.head, commit_arg)
    IN  IF ~root.ok \/ ~root.some THEN Err
        ELSE get_blobs_from_root(R.dirs, from_string(root.val).val)

FallbackMessage(commit_arg) == <<"Fallback to the commit with commit_id", commit_arg>>

\* the end of fallback: what the track call returned
FallbackTracked(t) ==
    [result |-> IF t.result \in {"err", "panic"} THEN t.result ELSE "ok",
     R |-> t.R, track |-> t.result]

\* fallback from the result o of observe(".") on (lines 43-49)
FallbackObserved(o, commit_arg, rank, name_rank, date) ==
    IF ~o.ok THEN [result |-> "err", R |-> o.R, track |-> "none"]
    ELSE IF commit_arg = NoArg THEN [result |-> "panic", R |-> o.R, track |-> "none"]
    ELSE FallbackTracked(track(o.R, FallbackMessage(commit_arg), TRUE, rank, name_rank, date))

\* a fallback that moves HEAD to the target before it observes and commits
FallbackProcessedMutant(R, pc, commit_arg, rank, name_rank, date) ==
    IF ~pc.ok THEN [result |-> "err", R |-> [R EXCEPT !.wd = pc.fs], track |-> "none"]
    ELSE FallbackObserved(observe([R EXCEPT !.wd = pc.fs, !.head = commit_arg],
                                  <<<<".">>>>, rank),
                          commit_arg, rank, name_rank, date)

\* fallback from the result pc of process_change on (lines 41-43)
FallbackProcessed(R, pc, commit_arg, rank, name_rank, date) ==
    IF ~pc.ok THEN [result |-> "err", R |-> [R EXCEPT !.wd = pc.fs], track |-> "none"]
    ELSE FallbackObserved(observe([R EXCEPT !.wd = pc.fs], <<<<".">>>>, rank),
                          commit_arg, rank, name_rank, date)

\* a fallback that takes a commit it cannot read for a commit of no files
FallbackBlobsMutant(R, head_blobs, commit_blobs, commit_arg, rank, name_rank, date) ==
    IF ~head_blobs.ok
    THEN [result |-> "noop", R |-> R, track |-> "none"]
    ELSE FallbackProcessed(R,
                           process_change(R.wd, R.files,
                                          compare_trees(head_blobs.val,
                                                        IF commit_blobs.ok
                                                        THEN commit_blobs.val
                                                        ELSE EmptyMap,
                                                        rank)),
                           commit_arg, rank, name_rank, date)

\* fallback from the two flattened trees on (lines 30-41)
FallbackBlobs(R, head_blobs, commit_blobs, commit_arg, rank, name_rank, date) ==
    IF ~head_blobs.ok \/ ~commit_blobs.ok
    THEN [result |-> "noop", R |-> R, track |-> "none"]
    ELSE FallbackProcessed(R,
                           process_change(R.wd, R.files,
                                          compare_trees(head_blobs.val, commit_blobs.val,
                                                        rank)),
                           commit_arg, rank, name_rank, date)

\* fallback.  result is "noop" (Ok, nothing done), "ok", "err" or "panic"
\* (commit_hash.unwrap() on None); track is what the track call returned.
fallback(R, commit_arg, rank, name_rank, date) ==
    FallbackBlobs(R, get_blobs_from(R, NoArg), get_blobs_from(R, commit_arg),
                  commit_arg, rank, name_rank, date)

(***************************************************************************)
(* The specifications.  Each one drives its own variables; the variables  *)
(* of the others rest at their idle values.                                *)
(***************************************************************************)
NotRun == [ran |-> FALSE, ok |-> FALSE, hash |-> NoHash, shape |-> {}]

EmptyWd == [p \in WdPaths |-> Absent]

NoChanges == [to_add |-> <<>>, to_modify |-> <<>>, to_delete |-> <<>>, none |-> TRUE]

BlobIdle ==
    /\ blob_src = <<>>
    /\ blob_hash = NoHash
    /\ blob_read = NotRead

CmpIdle ==
    /\ cmp_head = EmptyMap
    /\ cmp_target = EmptyMap
    /\ cmp_changes = NoChanges

NotFiltered == {<<"?">>}

ScopeIdle ==
    /\ scope_prev = {}
    /\ scope_paths = <<>>
    /\ scope_comp = NotFiltered

TreeIdle ==
    /\ trees = [i \in 1..2 |-> NewTree]
    /\ roots = [i \in 1..2 |-> NotRun]

\* what last holds before any command has run
NoCommand ==
    [op |-> "none", paths |-> <<>>, all |-> FALSE, arg |-> NoArg, result |-> "none",
     head_before |-> NoHead, created |-> {}, repeat |-> FALSE, index_before |-> <<>>,
     clean_before |-> FALSE, writes |-> <<>>]

\* a repository as cli/create.rs leaves it
FreshRepo ==
    /\ gyatignore = {}
    /\ head = NoHead
    /\ index = <<>>
    /\ commits = EmptyMap
    /\ snapshot = EmptyMap
    /\ last = NoCommand
    /\ steps = 0

(***************************************************************************)
(* BlobSpec: every file content up to MaxLen bytes is stored as a blob and *)
(* read back.                                                              *)
(***************************************************************************)
ByteStrings == SeqsUpTo(0..MaxByte, MaxLen)

InitBlob ==
    /\ blob_src \in ByteStrings
    /\ blob_hash = NoHash
    /\ blob_read = NotRead
    /\ files = EmptyMap
    /\ dirs = EmptyMap
    /\ CmpIdle
    /\ ScopeIdle
    /\ TreeIdle
    /\ FreshRepo
    /\ wd = EmptyWd

WriteBlob ==
    /\ blob_hash = NoHash
    /\ LET w == write_blob(files, blob_src)
       IN  /\ blob_hash' = w.hash
           /\ files' = w.store
    /\ UNCHANGED <<blob_src, blob_read, dirs, cmpVars, scopeVars, treeVars, repoVars, wd>>

ReadBlob ==
    /\ blob_hash # NoHash
    /\ blob_read = NotRead
    /\ blob_read' = read_blob(files, blob_hash)
    /\ UNCHANGED <<blob_src, blob_hash, files, dirs, cmpVars, scopeVars, treeVars, repoVars, wd>>

NextBlob == WriteBlob \/ ReadBlob

BlobSpec == InitBlob /\ [][NextBlob]_vars

(***************************************************************************)
(* CmpSpec: compare_trees on every pair of flattened trees over FilePaths. *)
(***************************************************************************)
\* A flattened tree never holds a path and a prefix of it: a name is a blob
\* or a tree, not both.
PrefixFree(S) == \A p, q \in S : p # q => ~StartsWith(p, q)

BlobMaps ==
    UNION {[S -> {digest_file(c) : c \in Contents}] : S \in {T \in SUBSET FilePaths : PrefixFree(T)}}

InitCmp ==
    /\ cmp_head \in BlobMaps
    /\ cmp_target \in BlobMaps
    /\ cmp_changes = NoChanges
    /\ ScopeIdle
    /\ BlobIdle
    /\ TreeIdle
    /\ FreshRepo
    /\ wd = EmptyWd
    /\ files = EmptyMap
    /\ dirs = EmptyMap

CompareTrees ==
    /\ cmp_changes = NoChanges
    /\ \E rank \in Rankings :
          cmp_changes' = compare_trees(cmp_head, cmp_target, rank)
    /\ UNCHANGED <<cmp_head, cmp_target, scopeVars, blobVars, treeVars, repoVars, wd, storeVars>>

NextCmp == CompareTrees

CmpSpec == InitCmp /\ [][NextCmp]_vars

(***************************************************************************)
(* ScopeSpec: the filter of observe on the previous commit's paths, on     *)
(* path strings (sequences of characters, "/" the separator)               *)
(***************************************************************************)
\* Path::components: the pieces between the separators, from position k on;
\* cur is the piece being read.  Empty pieces (repeated or trailing
\* separators) are no components.
RECURSIVE SplitPath(_, _, _)
SplitPath(str, k, cur) ==
    IF k > Len(str) THEN (IF cur = <<>> THEN <<>> ELSE <<cur>>)
    ELSE IF str[k] = "/"
    THEN (IF cur = <<>> THEN <<>> ELSE <<cur>>) \o SplitPath(str, k + 1, <<>>)
    ELSE SplitPath(str, k + 1, Append(cur, str[k]))

path_components(str) == SplitPath(str, 1, <<>>)

\* fs::normalize: the components without the CurDir ones
normalize(str) ==
    LET NotCur(c) == c # <<".">>
    IN  SelectSeq(path_components(str), NotCur)

\* starts_with that accepts a component that only begins with the base's
starts_withMutant(str, base) ==
    /\ Len(base) <= Len(path_components(str))
    /\ \A i \in 1..Len(base) : StartsWith(path_components(str)[i], base[i])

\* Path::starts_with: whole components are compared
starts_with(str, base) == StartsWith(path_components(str), base)

\* the filter of observe (lines 68-82): the keys kept in prev_comp
ScopeFilter(prev, paths) ==
    {q \in prev : \E i \in 1..Len(paths) : starts_with(q, normalize(paths[i]))}

\* the paths a tree can hold: no file is a directory of another one
PathStrings ==
    {<<"s">>, <<"s", "2">>, <<"s", "/", "x">>, <<"s", "2", "/", "x">>, <<"x">>}

ScopePrevs ==
    {P \in SUBSET PathStrings :
        \A q1, q2 \in P : q1 # q2 => ~StartsWith(path_components(q2), path_components(q1))}

ScopeInputs ==
    {<<".">>, <<"s">>, <<"s", "2">>, <<"s", "/", "x">>, <<".", "/", "s">>, <<"s", "/">>}

InitScope ==
    /\ scope_prev \in ScopePrevs
    /\ scope_paths \in {<<p>> : p \in ScopeInputs}
                       \cup {<<p1, p2>> : p1 \in ScopeInputs, p2 \in ScopeInputs}
    /\ scope_comp = NotFiltered
    /\ BlobIdle
    /\ CmpIdle
    /\ TreeIdle
    /\ FreshRepo
    /\ wd = EmptyWd
    /\ files = EmptyMap
    /\ dirs = EmptyMap

ScopeObserve ==
    /\ scope_comp = NotFiltered
    /\ scope_comp' = ScopeFilter(scope_prev, scope_paths)
    /\ UNCHANGED <<scope_prev, scope_paths, blobVars, cmpVars, treeVars, repoVars, wd,
                   storeVars>>

NextScope == ScopeObserve

ScopeSpec == InitScope /\ [][NextScope]_vars

(***************************************************************************)
(* TreeSpec: two trees are built by add_path calls over one working        *)
(* directory and each is serialized once, in any child order.              *)
(***************************************************************************)
\* Largest arena the add_path calls of TreeSpec may grow.
MaxNodes == 4

\* a, and d/b inside the directory d
TreeWd ==
    [p \in WdPaths |->
        IF p = <<"a">> THEN RegFile(<<1>>)
        ELSE IF p = <<"d">> THEN IsDir
        ELSE IF p = <<"d", "b">> THEN RegFile(<<2, 0>>)
        ELSE Absent]

\* the paths handed to add_path: ".", the paths of the directory, and one
\* that does not exist
AddArgs == {<<".">>, <<"x">>} \cup WdPaths

\* the logical tree under a node: per child its name, its kind and its own
\* children (depth bounded by fuel as in to_object_file)
RECURSIVE ShapeOf(_, _, _)
ShapeOf(t, idx, fuel) ==
    IF fuel = 0 THEN {}
    ELSE {<<c, is_leaf(t.nodes[t.nodes[idx].children[c]]),
            ShapeOf(t, t.nodes[idx].children[c], fuel - 1)>> :
              c \in DOMAIN t.nodes[idx].children}

Shape(t) == ShapeOf(t, 0, NodesLen(t) + 1)

InitTree ==
    /\ trees = [i \in 1..2 |-> NewTree]
    /\ roots = [i \in 1..2 |-> NotRun]
    /\ wd = TreeWd
    /\ files = EmptyMap
    /\ dirs = EmptyMap
    /\ BlobIdle
    /\ CmpIdle
    /\ ScopeIdle
    /\ FreshRepo

TreeAddPath ==
    \E i \in 1..2, path \in AddArgs :
        LET r == add_path(trees[i], path, Stat(wd, path) # Absent, TRUE)
        IN  /\ ~roots[i].ran
            /\ ~r.panic
            /\ NodesLen(r.tree) <= MaxNodes
            /\ trees' = [trees EXCEPT ![i] = r.tree]
            /\ UNCHANGED <<roots, wd, storeVars, blobVars, cmpVars, scopeVars, repoVars>>

TreeSerialize ==
    \E i \in 1..2, rank \in NameRankings :
        LET r == to_object_file(trees[i], wd,
                                [files |-> files, dirs |-> dirs, trace |-> <<>>], rank)
        IN  /\ ~roots[i].ran
            /\ roots' = [roots EXCEPT ![i] =
                             [ran |-> TRUE, ok |-> r.ok, hash |-> r.hash,
                              shape |-> Shape(trees[i])]]
            /\ files' = r.files
            /\ dirs' = r.dirs
            /\ UNCHANGED <<trees, wd, blobVars, cmpVars, scopeVars, repoVars>>

NextTree == TreeAddPath \/ TreeSerialize

TreeSpec == InitTree /\ [][NextTree]_vars

(***************************************************************************)
(* PruneSpec: process_change with files to delete, on a working directory  *)
(* that is three levels deep                                               *)
(***************************************************************************)
PruneFiles == {<<"a">>, <<"d", "h">>, <<"d", "e", "f">>, <<"d", "e", "g">>}

PruneDirs == {<<"d">>, <<"d", "e">>}

\* the working directory with the files F and, next to the directories
\* above them, the directories E
PruneWd(F, E) ==
    [p \in PruneFiles \cup PruneDirs |->
        IF p \in F THEN RegFile(<<1>>)
        ELSE IF p \in E \/ \E q \in F : q # p /\ StartsWith(q, p) THEN IsDir
        ELSE Absent]

\* the to_delete lists: up to two paths a commit can hold
DeleteLists ==
    {<<>>} \cup {<<p>> : p \in PruneFiles}
           \cup {l \in PruneFiles \X PruneFiles : l[1] # l[2]}

InitPrune ==
    /\ \E F \in SUBSET PruneFiles, E \in {{}, {<<"d">>}, PruneDirs} : wd = PruneWd(F, E)
    /\ \E list \in DeleteLists :
          cmp_changes = [to_add |-> <<>>, to_modify |-> <<>>, to_delete |-> list,
                         none |-> list = <<>>]
    /\ cmp_head = EmptyMap
    /\ cmp_target = EmptyMap
    /\ files = EmptyMap
    /\ dirs = EmptyMap
    /\ BlobIdle
    /\ ScopeIdle
    /\ TreeIdle
    /\ FreshRepo

\* process_change on the Changes drawn; last keeps the working directory
\* as it was
ProcessChange ==
    /\ last.op = "none"
    /\ wd' = process_change(wd, files, cmp_changes).fs
    /\ last' = [op |-> "process_change", before |-> wd,
                ok |-> process_change(wd, files, cmp_changes).ok]
    /\ UNCHANGED <<cmpVars, blobVars, scopeVars, treeVars, storeVars, gyatignore, head,
                   index, commits, snapshot, steps>>

NextPrune == ProcessChange

PruneSpec == InitPrune /\ [][NextPrune]_vars

(***************************************************************************)
(* HexSpec: hash.rs and the Parent line of a commit record on strings of   *)
(* characters                                                              *)
(***************************************************************************)
\* the longest string tried
MaxStrLen == 42

\* a digest is [u8; 20]
HashLen == 20

HexChars ==
    <<"0", "1", "2", "3", "4", "5", "6", "7", "8", "9", "a", "b", "c", "d", "e", "f">>

UpperHex == <<"A", "B", "C", "D", "E", "F">>

IsHexChar(c) ==
    \/ \E i \in 1..16 : HexChars[i] = c
    \/ \E i \in 1..6 : UpperHex[i] = c

HexVal(c) ==
    IF \E i \in 1..16 : HexChars[i] = c
    THEN (CHOOSE i \in 1..16 : HexChars[i] = c) - 1
    ELSE 9 + (CHOOSE i \in 1..6 : UpperHex[i] = c)

\* hex::decode: an error for an odd length or a character that is no hex
\* digit, the bytes otherwise
hex_decode(str) ==
    IF Len(str) % 2 = 1 THEN Err
    ELSE IF \E i \in 1..Len(str) : ~IsHexChar(str[i]) THEN Err
    ELSE Ok([i \in 1..(Len(str) \div 2) |->
                16 * HexVal(str[2 * i - 1]) + HexVal(str[2 * i])])

\* hex::encode: two lowercase digits a byte
hex_encode(bytes) ==
    [i \in 1..(2 * Len(bytes)) |->
        IF i % 2 = 1 THEN HexChars[(bytes[(i + 1) \div 2] \div 16) + 1]
        ELSE HexChars[(bytes[i \div 2] % 16) + 1]]

hash_to_string(hash) == hex_encode(hash)

\* hash::from_string: the ? hands on the error of hex::decode; the slice
\* [..20] of the decoded bytes panics when there are fewer than 20 and drops
\* what follows the 20th otherwise, so try_into never fails
hash_from_string(str) ==
    IF ~hex_decode(str).ok THEN [kind |-> "err", val |-> <<>>]
    ELSE IF Len(hex_decode(str).val) < HashLen THEN [kind |-> "panic", val |-> <<>>]
    ELSE [kind |-> "ok", val |-> SubSeq(hex_decode(str).val, 1, HashLen)]

\* str.split(':')
RECURSIVE Split(_, _)
Split(str, acc) ==
    IF str = <<>> THEN <<acc>>
    ELSE IF Head(str) = ":" THEN <<acc>> \o Split(Tail(str), <<>>)
    ELSE Split(Tail(str), Append(acc, Head(str)))

WhiteSpace == {" ", "\n"}

RECURSIVE TrimStart(_)
TrimStart(str) ==
    IF str # <<>> /\ Head(str) \in WhiteSpace THEN TrimStart(Tail(str)) ELSE str

RECURSIVE TrimEnd(_)
TrimEnd(str) ==
    IF str # <<>> /\ str[Len(str)] \in WhiteSpace
    THEN TrimEnd(SubSeq(str, 1, Len(str) - 1)) ELSE str

Trim(str) == TrimEnd(TrimStart(str))

\* the parent of read_commit_content, from the first line of the record:
\* parts[1] panics on a line without a colon; None is kind "none"
read_parent(line) ==
    IF Len(Split(line, <<>>)) < 2 THEN [kind |-> "panic", val |-> <<>>]
    ELSE IF Len(Trim(Split(line, <<>>)[2])) < MinParentLen
         THEN [kind |-> "none", val |-> <<>>]
    ELSE hash_from_string(Trim(Split(line, <<>>)[2]))

\* the first line of a commit record as track writes it
ParentLine(field) == <<"P", "a", "r", "e", "n", "t", ":", " ">> \o field \o <<"\n">>

Rep(c, n) == [i \in 1..n |-> c]

\* strings of every length up to MaxStrLen: of one hex digit, lowercase or
\* uppercase, and with a character that is no hex digit first or last
HexInputs ==
    UNION {{Rep("0", n), Rep("a", n), Rep("F", n),
            [i \in 1..n |-> IF i = 1 THEN "g" ELSE "0"],
            [i \in 1..n |-> IF i = n THEN "g" ELSE "7"],
            [i \in 1..n |-> HexChars[(i % 16) + 1]]} : n \in 0..MaxStrLen}

HexHashes ==
    {Rep(0, HashLen), Rep(171, HashLen), Rep(255, HashLen),
     [i \in 1..HashLen |-> (i * 37) % 256]}

InitHex ==
    /\ \E str \in HexInputs, hash \in HexHashes :
          last = [op |-> "none", str |-> str, hash |-> hash]
    /\ gyatignore = {}
    /\ head = NoHead
    /\ index = <<>>
    /\ commits = EmptyMap
    /\ snapshot = EmptyMap
    /\ steps = 0
    /\ wd = EmptyMap
    /\ files = EmptyMap
    /\ dirs = EmptyMap
    /\ BlobIdle
    /\ CmpIdle
    /\ ScopeIdle
    /\ TreeIdle

HexFrame ==
    UNCHANGED <<blobVars, cmpVars, scopeVars, treeVars, storeVars, wd, gyatignore, head,
                index, commits, snapshot, steps>>

HexFromString ==
    /\ last.op = "none"
    /\ last' = [op |-> "from_string", str |-> last.str, hash |-> last.hash,
                result |-> hash_from_string(last.str)]
    /\ HexFrame

HexReadParent ==
    /\ last.op = "none"
    /\ last' = [op |-> "read_parent", str |-> last.str, hash |-> last.hash,
                result |-> read_parent(ParentLine(last.str))]
    /\ HexFrame

HexRoundTrip ==
    /\ last.op = "none"
    /\ last' = [op |-> "round_trip", str |-> hash_to_string(last.hash), hash |-> last.hash,
                result |-> hash_from_string(hash_to_string(last.hash))]
    /\ HexFrame

NextHex == HexFromString \/ HexReadParent \/ HexRoundTrip

HexSpec == InitHex /\ [][NextHex]_vars

(***************************************************************************)
(* ArenaSpec: one arena tree grown by add_path over a directory that is    *)
(* three levels deep                                                       *)
(***************************************************************************)
\* a/b/c and e/c share their last name: a walk that strays into the nodes
\* that were beneath a can meet the name it is looking for
ArenaFiles == {<<"a", "b", "c">>, <<"a", "d">>, <<"e", "c">>}

\* the files and the directories above them
ArenaPaths == UNION {{SubSeq(p, 1, k) : k \in 1..Len(p)} : p \in ArenaFiles}

\* a directory with a .gyat of its own: another repository inside this one
NestedRepos == {<<"o">>}

\* root::get_repo_root of a path that exists, relative to the repository
\* root: the nearest directory at or above the path that holds a .gyat
\* (<<>> is the repository of the tree)
RECURSIVE get_repo_root(_)
get_repo_root(path) ==
    IF path = <<>> \/ path \in NestedRepos THEN path
    ELSE get_repo_root(Parent(path))

ArenaWd ==
    [p \in ArenaPaths \cup NestedRepos |->
        IF p \in ArenaFiles THEN RegFile(<<1>>) ELSE IsDir]

\* the paths handed to add_path: ".", every path there is, the other
\* repository, and one that does not exist
ArenaArgs == {<<".">>, <<"x">>} \cup ArenaPaths \cup NestedRepos

InitArena ==
    /\ trees = [i \in 1..2 |-> NewTree]
    /\ roots = [i \in 1..2 |-> NotRun]
    /\ wd = ArenaWd
    /\ files = EmptyMap
    /\ dirs = EmptyMap
    /\ BlobIdle
    /\ CmpIdle
    /\ ScopeIdle
    /\ FreshRepo

\* add_path on the first tree, called with a path of the working directory
ArenaCall(path) ==
    add_path(trees[1], path, Stat(wd, path) # Absent,
             get_repo_root(Components(path)) = <<>>)

\* history: the paths add_path returned true for
ArenaAdded == IF last.op = "add_path" THEN last.added ELSE {}

\* history: the paths the calls so far asked the tree to hold
ArenaKept == IF last.op = "add_path" THEN last.kept ELSE {}

\* ArenaKept after a call of add_path(path) that returned ret: a call that
\* returned true added the path; a call on a directory above paths held
\* replaced them by the directory; any other call asked for nothing new
KeptAfter(kept, path, ret) ==
    IF ret \/ \E q \in kept : q # path /\ StartsWith(q, path)
    THEN {q \in kept : ~StartsWith(q, path)} \cup {path}
    ELSE kept

\* one call of add_path on the first tree; last keeps the call: the path,
\* the tree before it, the value returned and the nodes allocated
ArenaAddPath ==
    \E path \in ArenaArgs :
        /\ ~ArenaCall(path).panic
        /\ trees' = [trees EXCEPT ![1] = ArenaCall(path).tree]
        /\ last' = [op |-> "add_path", path |-> path, before |-> trees[1],
                    ret |-> ArenaCall(path).ret, allocs |-> ArenaCall(path).allocs,
                    kept |-> IF Components(path) = <<>> \/ only_repo_root(trees[1])
                             THEN ArenaKept
                             ELSE KeptAfter(ArenaKept, path, ArenaCall(path).ret),
                    added |-> IF Components(path) # <<>> /\ ArenaCall(path).ret
                              THEN ArenaAdded \cup {path} ELSE ArenaAdded]
        /\ UNCHANGED <<roots, wd, storeVars, blobVars, cmpVars, scopeVars, gyatignore,
                       head, index, commits, snapshot, steps>>

NextArena == ArenaAddPath

ArenaSpec == InitArena /\ [][NextArena]_vars

(***************************************************************************)
(* Spec: a user edits the working directory of a fresh repository and runs *)
(* observe, track and fallback, each command to its end at the repository  *)
(* root.                                                                   *)
(***************************************************************************)
\* Most edits and commands of one run.
MaxSteps == 6

Step ==
    /\ steps < MaxSteps
    /\ steps' = steps + 1

\* the lines a user may put in .gyatignore
IgnoreLines == {"a"}

\* the commit messages a user may give
Messages == {<<"m">>}

\* the formatted local time of a commit
Dates == {"Tue Nov 03 23:00:00 2026"}

\* the path lists handed to observe: single paths, and lists whose paths
\* repeat or overlap
ObserveArgs ==
    { <<<<".">>>>, <<<<"a">>>>, <<<<"d">>>>, <<<<"d">>, <<"d", "b">>>> }

\* a hex string that names no commit
BogusArg == to_string(NoHash)

Repo ==
    [wd |-> wd, gyatignore |-> gyatignore, head |-> head, index |-> index,
     commits |-> commits, files |-> files, dirs |-> dirs, writes |-> <<>>]

\* the flattened tree of the commit named by the hex string commit_key
TreeOf(R, commit_key) == get_blobs_from(R, commit_key)

\* the history kept of a commit just made: the content on disk of every
\* path of its tree
Snap(R, before) ==
    IF R.head \in DOMAIN before THEN before
    ELSE MapPut(before, R.head,
                [p \in DOMAIN TreeOf(R, R.head).val |-> R.wd[p].data])

\* the working directory holds every file of HEAD's tree with the content
\* that was committed
CleanWd(R, snap) ==
    /\ R.head # NoHead
    /\ \A p \in DOMAIN snap[R.head] : Stat(R.wd, p) = RegFile(snap[R.head][p])

Install(R) ==
    /\ wd' = R.wd
    /\ gyatignore' = R.gyatignore
    /\ head' = R.head
    /\ index' = R.index
    /\ commits' = R.commits
    /\ files' = R.files
    /\ dirs' = R.dirs

Init ==
    /\ FreshRepo
    /\ wd = EmptyWd
    /\ files = EmptyMap
    /\ dirs = EmptyMap
    /\ BlobIdle
    /\ CmpIdle
    /\ ScopeIdle
    /\ TreeIdle

Edited == [NoCommand EXCEPT !.op = "edit"]

\* what an edit leaves alone
EditFrame ==
    /\ Step
    /\ last' = Edited
    /\ UNCHANGED <<head, index, commits, snapshot, storeVars, blobVars, cmpVars, scopeVars, treeVars>>

\* the user writes a file, making its directories
WriteFile ==
    \E path \in FilePaths, content \in Contents :
        LET made == create_dir_all(wd, Parent(path))
        IN  /\ EditFrame
            /\ wd[path] # RegFile(content)
            /\ made.ok
            /\ write_file(made.val, path, content).ok
            /\ wd' = write_file(made.val, path, content).val
            /\ UNCHANGED gyatignore

\* the user removes a file, or a directory with all it holds
Remove ==
    \E path \in WdPaths :
        /\ EditFrame
        /\ wd[path] # Absent
        /\ wd' = [p \in DOMAIN wd |-> IF StartsWith(p, path) THEN Absent ELSE wd[p]]
        /\ UNCHANGED gyatignore

\* the user rewrites .gyatignore
EditIgnore ==
    \E lines \in SUBSET IgnoreLines :
        /\ EditFrame
        /\ lines # gyatignore
        /\ gyatignore' = lines
        /\ UNCHANGED wd

\* what a command leaves behind: the repository R and the history
Ran(R, snap, entry) ==
    /\ Install(R)
    /\ snapshot' = snap
    /\ last' = entry
    /\ UNCHANGED <<blobVars, cmpVars, scopeVars, treeVars>>

ObserveDone(o, paths, again) ==
    Ran(o.R, snapshot,
        [NoCommand EXCEPT !.op = "observe", !.paths = paths,
                          !.result = IF o.ok THEN "ok" ELSE "err",
                          !.head_before = head,
                          !.repeat = again,
                          !.index_before = IF again THEN index ELSE <<>>])

\* gyat observe -p paths
Observe ==
    \E paths \in ObserveArgs, rank \in Rankings :
        /\ Step
        /\ ObserveDone(observe(Repo, paths, rank), paths,
                       last.op = "observe" /\ last.paths = paths)

TrackDone(t, track_all) ==
    Ran(t.R, IF t.result = "committed" THEN Snap(t.R, snapshot) ELSE snapshot,
        [NoCommand EXCEPT !.op = "track", !.all = track_all, !.result = t.result,
                          !.head_before = head,
                          !.created = DOMAIN t.R.commits \ DOMAIN commits,
                          !.index_before = index,
                          !.writes = t.R.writes])

\* gyat track -m message [-a]
Track ==
    \E message \in Messages, track_all \in BOOLEAN, rank \in Rankings,
       name_rank \in NameRankings, date \in Dates :
        /\ Step
        /\ TrackDone(track(Repo, message, track_all, rank, name_rank, date), track_all)

FallbackDone(f, commit_arg, clean) ==
    Ran(f.R, IF f.track = "committed" THEN Snap(f.R, snapshot) ELSE snapshot,
        [NoCommand EXCEPT !.op = "fallback", !.arg = commit_arg, !.result = f.result,
                          !.head_before = head,
                          !.created = DOMAIN f.R.commits \ DOMAIN commits,
                          !.clean_before = clean,
                          !.writes = f.R.writes])

\* gyat fallback commit_hash
Fallback ==
    \E commit_arg \in DOMAIN commits \cup {NoArg, BogusArg}, rank \in Rankings,
       name_rank \in NameRankings, date \in Dates :
        /\ Step
        /\ FallbackDone(fallback(Repo, commit_arg, rank, name_rank, date), commit_arg,
                        CleanWd(Repo, snapshot))

Next ==
    \/ WriteFile
    \/ Remove
    \/ EditIgnore
    \/ Observe
    \/ Track
    \/ Fallback

Spec == Init /\ [][Next]_vars

(***************************************************************************)
(* The claims.                                                             *)
(***************************************************************************)
\* C1: blob round trip -- for every file content, read_blob on the blob
\* written for that file returns exactly the original bytes.
C1_BlobRoundTrip ==
    (blob_read # NotRead) => (blob_read = Ok(blob_src))

\* C3: diff completeness of compare_trees -- to_add is exactly the paths of
\* target not in head, to_modify the paths in both with differing hash,
\* to_delete the paths of head not in target; the three are pairwise
\* disjoint, and to_add, to_modify and the unchanged common paths make up
\* target.
CmpPathsOf(pairs) == {pairs[i][1] : i \in 1..Len(pairs)}

CmpUnchanged ==
    {p \in DOMAIN cmp_head \cap DOMAIN cmp_target : cmp_head[p] = cmp_target[p]}

C3_DiffComplete ==
    (cmp_changes # NoChanges) =>
        LET add == CmpPathsOf(cmp_changes.to_add)
            mod == CmpPathsOf(cmp_changes.to_modify)
            del == SeqToSet(cmp_changes.to_delete)
        IN  /\ add = DOMAIN cmp_target \ DOMAIN cmp_head
            /\ mod = {p \in DOMAIN cmp_head \cap DOMAIN cmp_target :
                          cmp_head[p] # cmp_target[p]}
            /\ del = DOMAIN cmp_head \ DOMAIN cmp_target
            /\ add \cap mod = {} /\ add \cap del = {} /\ mod \cap del = {}
            /\ add \cup mod \cup CmpUnchanged = DOMAIN cmp_target
            \* each listed path once, with the hash of the target
            /\ Len(cmp_changes.to_add) = Cardinality(add)
            /\ Len(cmp_changes.to_modify) = Cardinality(mod)
            /\ Len(cmp_changes.to_delete) = Cardinality(del)
            /\ \A i \in 1..Len(cmp_changes.to_add) :
                   cmp_changes.to_add[i][2] = cmp_target[cmp_changes.to_add[i][1]]
            /\ \A i \in 1..Len(cmp_changes.to_modify) :
                   cmp_changes.to_modify[i][2] = cmp_target[cmp_changes.to_modify[i][1]]

\* a call that found something of each kind
C3_Witness ==
    /\ cmp_changes # NoChanges
    /\ cmp_changes.to_add # <<>>
    /\ cmp_changes.to_modify # <<>>
    /\ cmp_changes.to_delete # <<>>

\* C2: tree determinism -- two serializations of the same logical tree (the
\* same children at every directory), built in independently constructed
\* Tree states, return the same root tree hash.
C2_TreeDeterminism ==
    (/\ roots[1].ran /\ roots[1].ok
     /\ roots[2].ran /\ roots[2].ok
     /\ roots[1].shape = roots[2].shape)
        => roots[1].hash = roots[2].hash

(***************************************************************************)
(* Claims on Spec.                                                         *)
(***************************************************************************)
\* the flattened tree of the commit in HEAD
HeadTree == TreeOf(Repo, NoArg)

\* the files of the working directory that .gyatignore lets through
WdFiles == {p \in FilePaths : wd[p].kind = "file" /\ ~is_match(gyatignore, p)}

\* the last command wrote a commit record
Committed == last.op \in {"track", "fallback"} /\ last.created # {}

TrackedAll == last.op = "track" /\ last.all /\ last.result = "committed"

\* C4: after a successful commit made with track_all the tree in HEAD
\* flattens to exactly the non-ignored files of the working directory, each
\* mapped to the SHA-1 of its content.
C4_HeadTreeIsWd ==
    TrackedAll =>
        /\ HeadTree.ok
        /\ HeadTree.val = [p \in WdFiles |-> Sha1(wd[p].data)]

\* The same with the hash the program computes (digest_file) in the place of
\* the SHA-1 of the content: the paths are exactly the non-ignored files.
HeadTreeIsWdDigest ==
    TrackedAll =>
        /\ HeadTree.ok
        /\ HeadTree.val = [p \in WdFiles |-> digest_file(wd[p].data)]

\* C5: after a successful commit HEAD holds the hash of the record just
\* written, and the record's Parent field is the HEAD from before the
\* commit, or "0" (read back as no parent) when there was none.
C5_HeadAndParent ==
    Committed =>
        /\ head \in DOMAIN commits
        /\ last.created = {head}
        /\ head = get_sha1_string(commits[head])
        /\ commits[head][1] =
              <<"Parent", IF last.head_before = NoHead THEN ZeroParent
                          ELSE last.head_before>>
        /\ read_commit_content(commits, from_string(head).val).ok
        /\ read_commit_content(commits, from_string(head).val).val.parent =
              IF last.head_before = NoHead THEN NoHash
              ELSE from_string(last.head_before).val

\* a second commit has been made on top of a first one
C5_Witness == Committed /\ last.op = "track" /\ last.head_before # NoHead

FellBack ==
    /\ last.op = "fallback"
    /\ last.result = "ok"
    /\ last.arg \in DOMAIN commits
    /\ last.head_before # NoHead

\* C6: after a successful fallback to the commit C from a working directory
\* that held HEAD's files, every path of C's tree is a file with the content
\* committed in C, and every path of HEAD's tree that C lacks is gone.
C6_FallbackRestores ==
    (FellBack /\ last.clean_before) =>
        /\ \A p \in DOMAIN snapshot[last.arg] :
              wd[p] = RegFile(snapshot[last.arg][p])
        /\ \A p \in DOMAIN snapshot[last.head_before] \ DOMAIN snapshot[last.arg] :
              wd[p] = Absent

\* C6 for commits none of whose files ends in a zero byte
FallbackRestoresNoNul ==
    (/\ FellBack
     /\ \A p \in DOMAIN snapshot[last.arg] :
           LET c == snapshot[last.arg][p] IN c # <<>> /\ c[Len(c)] # 0)
    => C6_FallbackRestores

\* C7: every successful fallback to an existing commit C appends a commit
\* whose parent is the HEAD from before and whose message names C.
C7_FallbackAppends ==
    FellBack =>
        /\ head \in last.created
        /\ commits[head][1] = <<"Parent", last.head_before>>
        /\ commits[head][3] = <<"Message", FallbackMessage(last.arg)>>

Observed == last.op = "observe" /\ last.result = "ok"

\* the candidates of the last observe, and the previous commit's flattened
\* set restricted to its input paths
Candidates == {p \in WdFiles : InScope(p, last.paths)}

PrevRestricted == {p \in DOMAIN HeadTree.val : InScope(p, last.paths)}

IndexPaths(change) ==
    {index[i][3] : i \in {j \in 1..Len(index) : index[j][4] = change}}

\* C8: with a previous commit, observe writes New for the candidates absent
\* from the restricted previous set, Mod for those present with another
\* hash, and Del for the paths of the restricted set that are no candidates.
C8_Classification ==
    (Observed /\ head # NoHead) =>
        /\ IndexPaths("New") = Candidates \ PrevRestricted
        /\ IndexPaths("Mod") =
              {p \in Candidates \cap PrevRestricted :
                  HeadTree.val[p] # digest_file(wd[p].data)}
        /\ IndexPaths("Del") = PrevRestricted \ Candidates

\* the input paths of the last observe neither repeat nor lie within one
\* another
DisjointPaths ==
    \A i, j \in 1..Len(last.paths) :
        i # j => ~StartsWith(Components(last.paths[i]), Components(last.paths[j]))

\* C8 for input paths that are disjoint
ClassificationDisjoint == DisjointPaths => C8_Classification

\* C9: whatever the input paths, the staging index holds no file whose hash
\* is the one the previous commit records for its path, and no path twice.
C9_UnchangedNeverWritten ==
    Observed =>
        /\ \A i \in 1..Len(index) :
              (index[i][4] # "Del" /\ head # NoHead /\ index[i][3] \in DOMAIN HeadTree.val)
                  => index[i][2] # to_string(HeadTree.val[index[i][3]])
        /\ \A i, j \in 1..Len(index) : i # j => index[i][3] # index[j][3]

\* C9 for input paths that are disjoint
UnchangedNeverWrittenDisjoint == DisjointPaths => C9_UnchangedNeverWritten

Repeated == Observed /\ last.repeat

\* C10 as stated: the second of two observe runs in a row leaves the
\* staging index empty.
C10_SecondRunEmpty == Repeated => index = <<>>

\* C10: the second of two observe runs in a row over the same input paths,
\* with no change to the working directory between them, writes the entries
\* the first run wrote; the index is empty only when the working directory
\* matches the previous commit under the input paths.
C10_SecondRunSame ==
    Repeated =>
        /\ Len(index) = Len(last.index_before)
        /\ SeqToSet(index) = SeqToSet(last.index_before)
        /\ (index = <<>>) =>
              /\ Candidates \subseteq (IF head = NoHead THEN {} ELSE PrevRestricted)
              /\ head # NoHead =>
                    /\ PrevRestricted \subseteq Candidates
                    /\ \A p \in Candidates : HeadTree.val[p] = digest_file(wd[p].data)

\* a second run that leaves entries in the index
C10_Witness == Repeated /\ index # <<>>

(***************************************************************************)
(* Claims on the object store and on fallback.                             *)
(***************************************************************************)
\* C11: the hash a file's blob is stored under is the SHA-1 of the file's
\* bytes, and no file of other bytes gets the same hash.
C11_HashIsSha1 ==
    (blob_hash # NoHash) =>
        /\ blob_hash = Sha1(blob_src)
        /\ \A c \in ByteStrings : digest_file(c) = blob_hash => c = blob_src

\* the contents of the files of the commit in HEAD
HeadContents == {snapshot[head][p] : p \in DOMAIN snapshot[head]}

\* C12: a step never changes or removes an object of files/; afterwards
\* every object is named by the hash of the bytes it holds, no two objects
\* hold the same bytes, and every file of the commit in HEAD has its object
\* under the hash of its content.
C12_ContentAddressing ==
    [][/\ \A k \in DOMAIN files : k \in DOMAIN files' /\ files'[k] = files[k]
       /\ \A k \in DOMAIN files' : k = to_string(Sha1(ZlibDecode(files'[k])))
       /\ \A k1, k2 \in DOMAIN files' : files'[k1] = files'[k2] => k1 = k2
       /\ head' # NoHead =>
             \A p \in DOMAIN snapshot'[head'] :
                 /\ to_string(digest_file(snapshot'[head'][p])) \in DOMAIN files'
                 /\ files'[to_string(digest_file(snapshot'[head'][p]))]
                       = format_blob_content(snapshot'[head'][p])]_vars

\* two files of one content are committed, then a later commit stores the
\* same content again: files/ holds one object
C12_Witness ==
    /\ head # NoHead
    /\ Cardinality(DOMAIN snapshot[head]) = 2
    /\ Cardinality(HeadContents) = 1
    /\ Cardinality(DOMAIN commits) = 2
    /\ Cardinality(DOMAIN files) = 1

\* C13: a fallback with no commit in the repository, or to a commit hash
\* that names no commit, returns success and changes neither HEAD, the
\* staging index, the object store nor the working directory.
C13_FallbackNoop ==
    [][(/\ last'.op = "fallback"
        /\ steps' = steps + 1
        /\ \/ head = NoHead
           \/ last'.arg # NoArg /\ last'.arg \notin DOMAIN commits)
       => /\ last'.result = "noop"
          /\ UNCHANGED <<head, index, commits, files, dirs, wd>>]_vars

\* a fallback to a hash that names no commit, in a repository with a commit
\* and a staged change
C13_Witness ==
    /\ last.op = "fallback"
    /\ last.arg = BogusArg
    /\ last.result = "noop"
    /\ head # NoHead
    /\ index # <<>>

\* C14: a fallback without a target, in a repository with a commit, returns
\* success and changes neither HEAD, the staging index nor the working
\* directory.
C14_FallbackNoTarget ==
    [][(/\ last'.op = "fallback"
        /\ steps' = steps + 1
        /\ last'.arg = NoArg
        /\ head # NoHead)
       => /\ last'.result \in {"noop", "ok"}
          /\ UNCHANGED <<head, index, wd>>]_vars


\* C15: HEAD changes only in a step that writes a commit record, and then to
\* that record: only track and fallback change it, with result "committed" or
\* "ok" and HEAD the one commit the step created.  A track that finds the
\* staging index empty writes no commit record and leaves HEAD; so does a
\* track whose tree serialization fails, an observe, and a fallback that
\* returns before its commit.
C15_HeadOnlyByCommit ==
    [][/\ head' # head =>
              /\ last'.op \in {"track", "fallback"}
              /\ last'.result \in {"committed", "ok"}
              /\ last'.created = {head'}
              /\ head' \notin DOMAIN commits
              /\ head' \in DOMAIN commits'
       /\ (/\ last'.op = "track" /\ steps' = steps + 1
           /\ ~last'.all /\ index = <<>>)
          => /\ last'.result = "nochange"
             /\ UNCHANGED <<head, commits>>
       /\ (/\ steps' = steps + 1
           /\ \/ last'.op = "observe"
              \/ last'.result \in {"err", "noop", "nochange"})
          => UNCHANGED <<head, commits>>]_vars

\* a track whose tree serialization failed, with a commit present
C15_Witness ==
    /\ last.op = "track" /\ last.result = "err"
    /\ head # NoHead /\ last.head_before = head

\* C16: a step that writes a commit leaves the staging index empty, and a
\* track without -a that follows it directly returns "No changes found" and
\* creates nothing.
C16_CommitEmptiesIndex ==
    [][/\ Committed' => index' = <<>>
       /\ (/\ Committed /\ last'.op = "track" /\ ~last'.all
           /\ steps' = steps + 1)
          => /\ last'.result = "nochange"
             /\ last'.created = {}
             /\ UNCHANGED <<head, commits, index>>]_vars

\* write, track -a, track: the second track follows the commit directly
C16_Witness ==
    /\ steps = 3 /\ Cardinality(DOMAIN commits) = 1 /\ head # NoHead
    /\ last.op = "track" /\ ~last.all /\ last.result = "nochange"
    /\ index = <<>>

\* path is the input path base or lies beneath it, component by component
UnderInput(path, base) ==
    \/ base = <<".">>
    \/ /\ Len(base) <= Len(path)
       /\ \A k \in 1..Len(base) : path[k] = base[k]

\* the paths of the previous commit outside every input path of the last observe
OutOfScope ==
    {p \in DOMAIN HeadTree.val :
        \A i \in 1..Len(last.paths) : ~UnderInput(p, last.paths[i])}

\* C17: after an observe with a previous commit, no path of that commit
\* outside every input path has a line in the staging index, of any kind,
\* whatever became of its working file.
C17_ScopeRestriction ==
    (Observed /\ head # NoHead) =>
        \A i \in 1..Len(index) : index[i][3] \notin OutOfScope

\* an observe that left out a tracked path whose file was edited or removed
C17_Witness ==
    /\ Observed /\ head # NoHead /\ index # <<>>
    /\ \E p \in OutOfScope :
          \/ wd[p] = Absent
          \/ wd[p].kind = "file" /\ wd[p].data # snapshot[head][p]

\* the input path string without a leading "./" and a trailing "/"; "." is
\* the empty string
Typed(str) ==
    LET a == IF Len(str) >= 2 /\ str[1] = "." /\ str[2] = "/"
             THEN SubSeq(str, 3, Len(str)) ELSE str
        b == IF a # <<>> /\ a[Len(a)] = "/" THEN SubSeq(a, 1, Len(a) - 1) ELSE a
    IN  IF b = <<".">> THEN <<>> ELSE b

\* the string q names base or something inside the directory base
Beneath(q, base) ==
    \/ base = <<>>
    \/ q = base
    \/ /\ Len(q) > Len(base)
       /\ SubSeq(q, 1, Len(base)) = base
       /\ q[Len(base) + 1] = "/"

\* the filter on path strings keeps a path of the previous commit exactly
\* when it is an input path or lies inside one: a sibling whose name only
\* begins with the name of an input path (s2 against s) is not kept.
SiblingOutOfScope ==
    scope_comp # NotFiltered =>
        scope_comp = {q \in scope_prev :
                         \E i \in 1..Len(scope_paths) : Beneath(q, Typed(scope_paths[i]))}

SiblingWitness ==
    /\ scope_paths = << <<"s">> >>
    /\ scope_prev = {<<"s", "/", "x">>, <<"s", "2">>, <<"x">>}
    /\ scope_comp = {<<"s", "/", "x">>}

\* the Parent field of the commit record k
ParentOf(k) == commits[k][1][2]

\* the commits met from k on along the Parent links, at most fuel of them
RECURSIVE ChainOf(_, _)
ChainOf(k, fuel) ==
    IF fuel = 0 \/ k \notin DOMAIN commits THEN <<>>
    ELSE <<k>> \o ChainOf(ParentOf(k), fuel - 1)

HeadChain == ChainOf(head, Cardinality(DOMAIN commits) + 1)

ReuseRule(al) ==
    IF BagToSet(al.before.next_frees) # {}
    THEN /\ NodesLen(al.after) = NodesLen(al.before)
         /\ \E s \in BagToSet(al.before.next_frees) :
               /\ \A y \in BagToSet(al.before.next_frees) : s <= y
               /\ al.after.nodes[s].filename = al.comp
               /\ al.after.nodes[s].parent = al.under
               /\ al.after.nodes[al.under].children[al.comp] = s
               /\ al.after.next_frees = al.before.next_frees (-) SetToBag({s})
    ELSE /\ NodesLen(al.after) = NodesLen(al.before) + 1
         /\ al.after.nodes[NodesLen(al.before)].filename = al.comp
         /\ al.after.nodes[NodesLen(al.before)].parent = al.under
         /\ al.after.next_frees = al.before.next_frees

\* C19: every node add_path allocates follows the reuse rule, and the arena
\* is longer after a call only by the nodes allocated with the pool empty.
C19_ArenaReuse ==
    last.op = "add_path" =>
        /\ \A n \in 1..Len(last.allocs) : ReuseRule(last.allocs[n])
        /\ NodesLen(trees[1]) - NodesLen(last.before) =
              Cardinality({n \in 1..Len(last.allocs) :
                              BagToSet(last.allocs[n].before.next_frees) = {}})

\* an unrelated path added with two slots free: it took the lower one
C19_Witness ==
    /\ last.op = "add_path"
    /\ Len(last.allocs) >= 1
    /\ Cardinality(BagToSet(last.before.next_frees)) = 2
    /\ NodesLen(trees[1]) = NodesLen(last.before)
    /\ last.before.nodes[MinOf(BagToSet(last.before.next_frees))].filename = ""
    /\ trees[1].nodes[MinOf(BagToSet(last.before.next_frees))].filename = last.path[1]

\* the slot of the node the path comps[k..] leads to from the node idx along
\* the child maps of t, or NoParent when there is none
RECURSIVE NodeAt(_, _, _, _)
NodeAt(t, comps, k, idx) ==
    IF k > Len(comps) THEN idx
    ELSE IF comps[k] \notin DOMAIN t.nodes[idx].children THEN NoParent
    ELSE NodeAt(t, comps, k + 1, t.nodes[idx].children[comps[k]])

\* the slots of the nodes beneath the node idx, at most fuel levels down
RECURSIVE NodesBeneath(_, _, _)
NodesBeneath(t, idx, fuel) ==
    IF fuel = 0 THEN {}
    ELSE LET kids == {t.nodes[idx].children[c] : c \in DOMAIN t.nodes[idx].children}
         IN  kids \cup UNION {NodesBeneath(t, j, fuel - 1) : j \in kids}

\* the node of the path of the last call in the tree before the call, and
\* the nodes that were beneath it
LastNode == NodeAt(last.before, last.path, 1, 0)

WasBeneath == NodesBeneath(last.before, LastNode, NodesLen(last.before))

\* the last call added a path that had nodes beneath it, to a tree that
\* was not the repository root alone
Subsumed ==
    /\ last.op = "add_path"
    /\ last.path # <<".">>
    /\ ~only_repo_root(last.before)
    /\ LastNode # NoParent
    /\ WasBeneath # {}

\* C20: after add_path(A) with nodes beneath A, at any depth, A is a leaf,
\* leaves() yields A and nothing strictly beneath A, and every node that
\* was beneath A has an empty name and its slot in the free pool.
C20_Subsumption ==
    Subsumed =>
        /\ is_leaf(trees[1].nodes[LastNode])
        /\ last.path \in leaves(trees[1])
        /\ \A q \in leaves(trees[1]) : StartsWith(q, last.path) => q = last.path
        /\ \A j \in WasBeneath :
              /\ ~is_valid(trees[1].nodes[j])
              /\ j \in BagToSet(trees[1].next_frees)

\* the same for a path whose nodes beneath were all its direct children
SubsumptionOneLevel ==
    (Subsumed /\ \A j \in WasBeneath : last.before.nodes[j].parent = LastNode) =>
        /\ is_leaf(trees[1].nodes[LastNode])
        /\ last.path \in leaves(trees[1])
        /\ \A q \in leaves(trees[1]) : StartsWith(q, last.path) => q = last.path
        /\ \A j \in WasBeneath :
              /\ ~is_valid(trees[1].nodes[j])
              /\ j \in BagToSet(trees[1].next_frees)

\* the last call passed the checks at the head of add_path and walked
Walked ==
    /\ last.op = "add_path"
    /\ last.path # <<".">>
    /\ Stat(wd, last.path) # Absent
    /\ get_repo_root(last.path) = <<>>
    /\ ~only_repo_root(last.before)

\* the slot the first k components of the path of the last call led to in
\* the tree before the call
PrefixNode(k) == NodeAt(last.before, SubSeq(last.path, 1, k), 1, 0)

\* the walk of the last call came to an existing leaf at or before its
\* final component: it returned false after it had allocated, or a prefix
\* of its path was a leaf of the tree before the call
LeafConflict ==
    /\ Walked
    /\ ~last.ret
    /\ \/ last.allocs # <<>>
       \/ \E k \in 1..Len(last.path) :
             /\ PrefixNode(k) # NoParent
             /\ is_leaf(last.before.nodes[PrefixNode(k)])

\* C21: an add_path call that returns false at an existing leaf leaves the
\* tree as it was: nodes, child links, free pool and size.
C21_LeafConflict == LeafConflict => trees[1] = last.before

\* a path refused beneath a leaf that is not the only node of the tree
C21_Witness ==
    /\ LeafConflict
    /\ Len(last.path) >= 2
    /\ NodesLen(last.before) >= 3

\* the last call was refused at the head of add_path
Rejected ==
    /\ last.op = "add_path"
    /\ \/ Stat(wd, last.path) = Absent
       \/ get_repo_root(Components(last.path)) # <<>>
       \/ only_repo_root(last.before)

\* C22: add_path returns false and leaves the tree as it was for a path
\* that does not exist, a path of another repository, and a tree in
\* whole-root mode; add_path on the repository root returns true and puts
\* the tree in whole-root mode, which no later call leaves.
C22_Rejections ==
    /\ Rejected => ~last.ret /\ trees[1] = last.before
    /\ (last.op = "add_path" /\ ~Rejected /\ last.path = <<".">>)
          => last.ret /\ only_repo_root(trees[1])

\* a path that exists, refused by a tree of several nodes in whole-root mode
C22_Witness ==
    /\ Rejected
    /\ only_repo_root(last.before)
    /\ NodesLen(last.before) >= 3
    /\ last.path \in ArenaPaths

\* a path of the other repository, refused by a tree that holds nodes
OtherRepoRefused ==
    /\ Rejected
    /\ last.path \in NestedRepos
    /\ ~only_repo_root(last.before)
    /\ NodesLen(last.before) >= 3

\* C23: for a tree that is not in whole-root mode, leaves() yields the
\* paths add_path was asked to hold and that no later call replaced by a
\* directory above them, each as it was added, and nothing else; for a
\* tree nothing was added to it yields nothing.
C23_LeavesExact == ~only_repo_root(trees[1]) => leaves(trees[1]) = ArenaKept

\* contains_path of a path of this repository on the first tree
Contains(path) == contains_path(trees[1], path, TRUE).ret

ChangesOf(k) == {commits[k][i][2] : i \in 6..Len(commits[k])}

\* C25: after a commit that has a parent, every path of the parent's
\* flattened tree without a Changes line in the new commit is in the new
\* commit's flattened tree with the blob hash it had.
C25_CarryOver ==
    (Committed /\ last.head_before # NoHead) =>
        \A p \in DOMAIN TreeOf(Repo, last.head_before).val \ ChangesOf(head) :
            /\ p \in DOMAIN HeadTree.val
            /\ HeadTree.val[p] = TreeOf(Repo, last.head_before).val[p]

\* the same for the paths whose file is on disk as the parent commit took it
CarryOverUntouched ==
    (Committed /\ last.head_before # NoHead) =>
        \A p \in DOMAIN TreeOf(Repo, last.head_before).val \ ChangesOf(head) :
            (wd[p] = RegFile(snapshot[last.head_before][p])) =>
                /\ p \in DOMAIN HeadTree.val
                /\ HeadTree.val[p] = TreeOf(Repo, last.head_before).val[p]

\* the paths of the leaves reached from the node idx along the child maps,
\* each prefixed by base
RECURSIVE LeafPathsUnder(_, _, _, _)
LeafPathsUnder(t, idx, base, fuel) ==
    IF fuel = 0 THEN {}
    ELSE IF is_leaf(t.nodes[idx]) THEN {base}
    ELSE UNION {LeafPathsUnder(t, t.nodes[idx].children[c], base \o <<c>>, fuel - 1) :
                   c \in DOMAIN t.nodes[idx].children}

\* the tree object stored under tree_hash has one line per child of the
\* node idx, of kind blob for a leaf and of kind tree otherwise, and so
\* have the tree objects of the children
RECURSIVE KindsMatch(_, _, _, _)
KindsMatch(t, idx, tree_hash, fuel) ==
    /\ fuel > 0
    /\ read_tree_content(dirs, tree_hash).ok
    /\ {<<l.ftype, l.component>> : l \in SeqToSet(read_tree_content(dirs, tree_hash).val)}
         = {<<IF is_leaf(t.nodes[t.nodes[idx].children[c]]) THEN "blob" ELSE "tree", c>> :
               c \in DOMAIN t.nodes[idx].children}
    /\ \A l \in SeqToSet(read_tree_content(dirs, tree_hash).val) :
          l.ftype = "tree" =>
              KindsMatch(t, t.nodes[idx].children[l.component], l.hash, fuel - 1)

\* the tree i was serialized to a root hash, holds a leaf and is not in
\* whole-root mode
Serialized(i) ==
    /\ roots[i].ran /\ roots[i].ok
    /\ ~only_repo_root(trees[i])
    /\ ~is_leaf(trees[i].nodes[0])

\* C26: flattening the root hash to_object_file returned yields the paths
\* of the leaves reached from the root, each with the SHA-1 of the content
\* of its file, and the tree objects record a child as blob exactly when it
\* is a leaf.
C26_SerializeFlatten ==
    \A i \in 1..2 :
        Serialized(i) =>
            /\ get_blobs_from_root(dirs, roots[i].hash).ok
            /\ DOMAIN get_blobs_from_root(dirs, roots[i].hash).val
                 = LeafPathsUnder(trees[i], 0, <<>>, NodesLen(trees[i]))
            /\ \A p \in DOMAIN get_blobs_from_root(dirs, roots[i].hash).val :
                  get_blobs_from_root(dirs, roots[i].hash).val[p] = Sha1(wd[p].data)
            /\ KindsMatch(trees[i], 0, roots[i].hash, NodesLen(trees[i]))

\* the same with the hash digest_file gives the file
SerializeFlattenDigest ==
    \A i \in 1..2 :
        Serialized(i) =>
            /\ get_blobs_from_root(dirs, roots[i].hash).ok
            /\ DOMAIN get_blobs_from_root(dirs, roots[i].hash).val
                 = LeafPathsUnder(trees[i], 0, <<>>, NodesLen(trees[i]))
            /\ \A p \in DOMAIN get_blobs_from_root(dirs, roots[i].hash).val :
                  get_blobs_from_root(dirs, roots[i].hash).val[p] = digest_file(wd[p].data)
            /\ KindsMatch(trees[i], 0, roots[i].hash, NodesLen(trees[i]))

\* a serialized tree of a file and a directory with a file
SerializeFlattenWitness ==
    /\ Serialized(1)
    /\ LeafPathsUnder(trees[1], 0, <<>>, NodesLen(trees[1])) = {<<"a">>, <<"d", "b">>}

(***************************************************************************)
(* Claims on the order of the writes                                       *)
(***************************************************************************)
\* every tree object of the store st names only blobs and trees that are
\* in st, and every commit record of st names a root tree that is in st
Closed(st) ==
    /\ \A k \in DOMAIN st.dirs : \A i \in 1..Len(st.dirs[k]) :
          /\ st.dirs[k][i][1] = "blob" => st.dirs[k][i][2] \in DOMAIN st.files
          /\ st.dirs[k][i][1] = "tree" => st.dirs[k][i][2] \in DOMAIN st.dirs
    /\ \A c \in DOMAIN st.commits : st.commits[c][2][2] \in DOMAIN st.dirs

\* C27: the store is closed after every single write of a commit, and so
\* in every state a command leaves behind.
C27_StoreClosed ==
    /\ Closed([files |-> files, dirs |-> dirs, commits |-> commits])
    /\ \A i \in 1..Len(last.writes) : Closed(last.writes[i])

\* a second commit that wrote two blobs, two trees and its record
C27_Witness ==
    /\ Committed
    /\ last.head_before # NoHead
    /\ Len(last.writes) >= 5
    /\ Cardinality(DOMAIN last.writes[1].dirs) < Cardinality(DOMAIN dirs)

(***************************************************************************)
(* Claims on the value add_path returns                                    *)
(***************************************************************************)
\* C28: add_path returns true exactly when it allocated a node or put the
\* tree in whole-root mode.
C28_ReturnValue ==
    last.op = "add_path" =>
        (last.ret <=> \/ last.allocs # <<>>
                      \/ ~Rejected /\ last.path = <<".">>)

\* the same for the calls that did not stray from the path they walked: no
\* node was allocated in a reused slot other than the one size points to
ReturnValueNoStray ==
    (/\ last.op = "add_path"
     /\ \A n \in 1..Len(last.allocs) :
           BagToSet(last.allocs[n].before.next_frees) # {} =>
               MinOf(BagToSet(last.allocs[n].before.next_frees))
                   = last.allocs[n].before.size)
    => (last.ret <=> \/ last.allocs # <<>>
                     \/ ~Rejected /\ last.path = <<".">>)

\* a directory above added paths, added: false is returned and they are
\* evicted
EvictedReturnsFalse ==
    /\ Subsumed
    /\ ~last.ret
    /\ last.allocs = <<>>
    /\ trees[1] # last.before

(***************************************************************************)
(* Claims on the Del entries of observe                                    *)
(***************************************************************************)
\* C29: after an observe with a previous commit, every Del line names a
\* path of that commit inside an input path at which the working directory
\* has no file now.
C29_DelOnlyIfGone ==
    (Observed /\ head # NoHead) =>
        \A p \in IndexPaths("Del") :
            /\ p \in DOMAIN HeadTree.val
            /\ \E i \in 1..Len(last.paths) : UnderInput(p, last.paths[i])
            /\ wd[p].kind # "file"

\* the same for the paths no line of .gyatignore matches
DelOnlyIfGoneNotIgnored ==
    (Observed /\ head # NoHead) =>
        \A p \in IndexPaths("Del") :
            /\ p \in DOMAIN HeadTree.val
            /\ \E i \in 1..Len(last.paths) : UnderInput(p, last.paths[i])
            /\ ~is_match(gyatignore, p) => wd[p].kind # "file"

(***************************************************************************)
(* Claims on the pruning of directories                                    *)
(***************************************************************************)
\* the files process_change removed
Removed ==
    {p \in DOMAIN last.before : last.before[p].kind = "file" /\ wd[p] = Absent}

\* the directory holds nothing in the working directory fs
Empty(fs, dir) ==
    \A p \in DOMAIN fs : (p # dir /\ StartsWith(p, dir)) => fs[p] = Absent

\* C30: after process_change, the files of to_delete are gone and no other
\* file is touched; a directory is gone exactly when it was above a removed
\* file and holds nothing any more, so every emptied directory above a
\* removed file is gone and no directory that holds an entry is.
C30_Pruning ==
    last.op = "process_change" =>
        /\ last.ok
        /\ \A p \in DOMAIN wd :
              last.before[p].kind = "file" =>
                  IF p \in SeqToSet(cmp_changes.to_delete) THEN wd[p] = Absent
                  ELSE wd[p] = last.before[p]
        /\ \A p \in DOMAIN wd : last.before[p] = Absent => wd[p] = Absent
        /\ \A dir \in DOMAIN wd :
              last.before[dir] = IsDir =>
                  /\ wd[dir] \in {IsDir, Absent}
                  /\ wd[dir] = Absent <=>
                        /\ Empty(wd, dir)
                        /\ \E p \in Removed : p # dir /\ StartsWith(p, dir)

\* d/e/f removed with d/h kept: d/e is gone and d stays
C30_Witness ==
    /\ last.op = "process_change"
    /\ Removed = {<<"d", "e", "f">>}
    /\ last.before[<<"d", "e">>] = IsDir /\ wd[<<"d", "e">>] = Absent
    /\ wd[<<"d">>] = IsDir /\ wd[<<"d", "h">>] # Absent

\* both files of d/e removed with nothing else in d: d/e and d are gone
PrunedToRoot ==
    /\ last.op = "process_change"
    /\ Removed = {<<"d", "e", "f">>, <<"d", "e", "g">>}
    /\ last.before[<<"d">>] = IsDir /\ wd[<<"d">>] = Absent
    /\ wd[<<"a">>] # Absent

(***************************************************************************)
(* Claims on the strings of hashes                                         *)
(***************************************************************************)
\* exactly 40 hex digits
ValidEncoding(str) ==
    Len(str) = HexLen /\ \A i \in 1..Len(str) : IsHexChar(str[i])

\* the 20 bytes a valid encoding stands for
Decoded(str) ==
    [i \in 1..HashLen |-> 16 * HexVal(str[2 * i - 1]) + HexVal(str[2 * i])]

\* C31: read_commit reads a Parent field of fewer than 40 characters as no
\* parent and a valid encoding as the parent it encodes, and never aborts.
C31_ShortParent ==
    last.op = "read_parent" =>
        /\ last.result.kind # "panic"
        /\ Len(last.str) < HexLen => last.result.kind = "none"
        /\ ValidEncoding(last.str) =>
              last.result = [kind |-> "ok", val |-> Decoded(last.str)]

\* a Parent field of fewer than 20 characters is no parent, a valid
\* encoding is the parent
ShortParentBelowTwenty ==
    last.op = "read_parent" =>
        /\ Len(last.str) < MinParentLen => last.result.kind = "none"
        /\ ValidEncoding(last.str) =>
              last.result = [kind |-> "ok", val |-> Decoded(last.str)]

\* a Parent field of 20 hex digits makes read_commit abort
ParentAborts ==
    /\ last.op = "read_parent"
    /\ Len(last.str) = MinParentLen
    /\ last.result.kind = "panic"

\* C32: from_string returns an error and never aborts for every string that
\* is not exactly 40 hex digits, returns the 20 bytes for every string that
\* is, and undoes to_string.
C32_FromString ==
    /\ last.op = "from_string" =>
          IF ValidEncoding(last.str)
          THEN last.result = [kind |-> "ok", val |-> Decoded(last.str)]
          ELSE last.result.kind = "err"
    /\ last.op = "round_trip" => last.result = [kind |-> "ok", val |-> last.hash]

\* from_string decodes every valid encoding, undoes to_string, and returns
\* an error for an odd length and for a character that is no hex digit
FromStringValid ==
    /\ last.op = "from_string" =>
          /\ ValidEncoding(last.str) =>
                last.result = [kind |-> "ok", val |-> Decoded(last.str)]
          /\ (Len(last.str) % 2 = 1 \/ \E i \in 1..Len(last.str) : ~IsHexChar(last.str[i]))
                => last.result.kind = "err"
    /\ last.op = "round_trip" => last.result = [kind |-> "ok", val |-> last.hash]

\* from_string aborts on a short string of hex digits
FromStringAborts ==
    /\ last.op = "from_string"
    /\ Len(last.str) < HexLen
    /\ last.result.kind = "panic"

\* from_string accepts a string of more than 40 hex digits
FromStringTooLong ==
    /\ last.op = "from_string"
    /\ Len(last.str) > HexLen
    /\ last.result.kind = "ok"

(***************************************************************************)
(* Claims on HEAD between the writes                                       *)
(***************************************************************************)
\* HEAD is empty or names a commit record of the store
HeadExists(h, commit_store) == h = NoHead \/ h \in DOMAIN commit_store

\* C33: after every single write of every command, and so in every state,
\* HEAD is empty or names a commit record that exists; HEAD moves only to
\* a record written before it, and the staging index is emptied only after
\* HEAD has moved.
C33_HeadExists ==
    /\ HeadExists(head, commits)
    /\ \A i \in 1..Len(last.writes) :
          /\ HeadExists(last.writes[i].head, last.writes[i].commits)
          /\ i > 1 =>
                /\ last.writes[i].head # last.writes[i - 1].head
                      => last.writes[i].head \in DOMAIN last.writes[i - 1].commits
                /\ (last.writes[i].index # last.writes[i - 1].index)
                      => /\ last.writes[i].head = last.writes[i - 1].head
                         /\ last.writes[i].head = head

\* a second commit: its record is there while HEAD still names the first
C33_Witness ==
    /\ last.op = "track" /\ last.result = "committed"
    /\ last.head_before # NoHead
    /\ \E i \in 1..Len(last.writes) :
          /\ last.writes[i].head = last.head_before
          /\ head \in DOMAIN last.writes[i].commits
          /\ last.writes[i].index # <<>>

(***************************************************************************)
(* Claims on the staging index and the commit made from it                 *)
(***************************************************************************)
\* a track without -a wrote a commit from the staging index as it was
TrackOfIndex ==
    last.op = "track" /\ ~last.all /\ last.result = "committed"

\* C34: the tree of a commit made from the staging index has, for every New
\* or Mod entry, the blob hash stored in the entry.
C34_IndexHash ==
    TrackOfIndex =>
        \A i \in 1..Len(last.index_before) :
            last.index_before[i][4] \in {"New", "Mod"} =>
                /\ last.index_before[i][3] \in DOMAIN HeadTree.val
                /\ to_string(HeadTree.val[last.index_before[i][3]]) = last.index_before[i][2]

\* the same for the entries whose file still has the content observe hashed
IndexHashUnedited ==
    TrackOfIndex =>
        \A i \in 1..Len(last.index_before) :
            (/\ last.index_before[i][4] \in {"New", "Mod"}
             /\ wd[last.index_before[i][3]].kind = "file"
             /\ to_string(digest_file(wd[last.index_before[i][3]].data))
                   = last.index_before[i][2]) =>
                /\ last.index_before[i][3] \in DOMAIN HeadTree.val
                /\ to_string(HeadTree.val[last.index_before[i][3]]) = last.index_before[i][2]

\* a commit made of a file edited after observe
EditedAfterObserve ==
    /\ TrackOfIndex
    /\ \E i \in 1..Len(last.index_before) :
          /\ last.index_before[i][3] \in DOMAIN HeadTree.val
          /\ to_string(HeadTree.val[last.index_before[i][3]]) # last.index_before[i][2]

(***************************************************************************)
(* Claims on the Changes of a commit record                                *)
(***************************************************************************)
\* the Changes lines of the commit record k
ChangeLines(k) == {commits[k][i] : i \in 6..Len(commits[k])}

\* C35: in every commit record, a path listed New or Mod is in the
\* flattened tree of the commit, and a path listed Del is not and is in the
\* flattened tree of the parent.
C35_ChangesInTree ==
    \A k \in DOMAIN commits : \A line \in ChangeLines(k) :
        /\ TreeOf(Repo, k).ok
        /\ line[1] \in {"New", "Mod"} => line[2] \in DOMAIN TreeOf(Repo, k).val
        /\ line[1] = "Del" =>
              /\ line[2] \notin DOMAIN TreeOf(Repo, k).val
              /\ commits[k][1][2] # ZeroParent
              /\ TreeOf(Repo, commits[k][1][2]).ok
              /\ line[2] \in DOMAIN TreeOf(Repo, commits[k][1][2]).val

\* the same for the commit just made, when every file it lists New or Mod is
\* on disk
ChangesInTreeOnDisk ==
    (Committed /\ \A line \in ChangeLines(head) :
                     line[1] \in {"New", "Mod"} => wd[line[2]].kind = "file")
    => \A line \in ChangeLines(head) :
          /\ HeadTree.ok
          /\ line[1] \in {"New", "Mod"} => line[2] \in DOMAIN HeadTree.val
          /\ line[1] = "Del" =>
                /\ line[2] \notin DOMAIN HeadTree.val
                /\ last.head_before # NoHead
                /\ line[2] \in DOMAIN TreeOf(Repo, last.head_before).val

\* a commit that lists a file as New and has no entry for it
NewNotInTree ==
    /\ Committed
    /\ \E line \in ChangeLines(head) :
          line[1] = "New" /\ line[2] \notin DOMAIN HeadTree.val

(***************************************************************************)
(* Claims on what add_path leaves alone                                    *)
(***************************************************************************)
\* the paths of the nodes reached from the node idx along the child maps,
\* each prefixed by base
RECURSIVE PathsUnder(_, _, _, _)
PathsUnder(t, idx, base, fuel) ==
    IF fuel = 0 THEN {base}
    ELSE {base} \cup
         UNION {PathsUnder(t, t.nodes[idx].children[c], base \o <<c>>, fuel - 1) :
                   c \in DOMAIN t.nodes[idx].children}

\* the paths linked from the root, and those that end in a leaf
Linked(t) == PathsUnder(t, 0, <<>>, NodesLen(t))

LinkedLeaves(t) == LeafPathsUnder(t, 0, <<>>, NodesLen(t) + 1) \ {<<>>}

\* q lies beneath the path base
StrictlyBeneath(q, base) == q # base /\ StartsWith(q, base)

\* C36: a walk of add_path(p) unlinks only nodes beneath p and links nodes
\* only along p; a leaf that is neither p nor beneath p stays a leaf under
\* its path, and when nodes were allocated every prefix of p is linked.
C36_Frame ==
    Walked =>
        /\ \A q \in Linked(last.before) \ Linked(trees[1]) : StrictlyBeneath(q, last.path)
        /\ \A q \in Linked(trees[1]) \ Linked(last.before) :
              \E k \in 1..Len(last.path) : q = SubSeq(last.path, 1, k)
        /\ \A q \in LinkedLeaves(last.before) :
              (q # last.path /\ ~StartsWith(q, last.path)) => q \in LinkedLeaves(trees[1])
        /\ last.allocs # <<>> =>
              \A k \in 1..Len(last.path) : SubSeq(last.path, 1, k) \in Linked(trees[1])

\* every node of the call was allocated at the index the walk went on from:
\* at the end of the arena, or in the free slot that size pointed to
NoStray ==
    \A n \in 1..Len(last.allocs) :
        BagToSet(last.allocs[n].before.next_frees) # {} =>
            MinOf(BagToSet(last.allocs[n].before.next_frees)) = last.allocs[n].before.size

\* the same for the calls that did not stray from the path they walked
FrameNoStray ==
    (Walked /\ NoStray) =>
        /\ \A q \in Linked(last.before) \ Linked(trees[1]) : StrictlyBeneath(q, last.path)
        /\ \A q \in Linked(trees[1]) \ Linked(last.before) :
              \E k \in 1..Len(last.path) : q = SubSeq(last.path, 1, k)
        /\ \A q \in LinkedLeaves(last.before) :
              (q # last.path /\ ~StartsWith(q, last.path)) => q \in LinkedLeaves(trees[1])
        /\ last.allocs # <<>> =>
              \A k \in 1..Len(last.path) : SubSeq(last.path, 1, k) \in Linked(trees[1])

\* a new component linked beneath a node that is not on the path
LinkedOffPath ==
    /\ Walked /\ last.ret
    /\ last.path \notin Linked(trees[1])

(***************************************************************************)
(* Claims on the bookkeeping of the arena                                  *)
(***************************************************************************)
\* the indices of the nodes reached from the node idx along the child maps
RECURSIVE ReachedFrom(_, _, _)
ReachedFrom(t, idx, fuel) ==
    IF fuel = 0 \/ idx \notin DOMAIN t.nodes THEN {idx}
    ELSE {idx} \cup UNION {ReachedFrom(t, t.nodes[idx].children[c], fuel - 1) :
                              c \in DOMAIN t.nodes[idx].children}

\* a new tree; and in a tree not in whole-root mode: size is the length of
\* the arena less the free slots, a free slot is in the pool once and is
\* not valid, the child indices are in the arena and no call of add_path
\* leaves it
Bookkeeping(t) ==
    /\ last.op = "none" =>
          /\ t.size = 1
          /\ DOMAIN t.nodes = {0} /\ is_valid(t.nodes[0]) /\ is_leaf(t.nodes[0])
          /\ t.next_frees = EmptyBag
    /\ ~only_repo_root(t) =>
          /\ t.size = NodesLen(t) - BagCardinality(t.next_frees)
          /\ \A i \in BagToSet(t.next_frees) :
                /\ CopiesIn(i, t.next_frees) = 1
                /\ i \in DOMAIN t.nodes
                /\ ~is_valid(t.nodes[i])
          /\ \A i \in DOMAIN t.nodes : \A c \in DOMAIN t.nodes[i].children :
                t.nodes[i].children[c] \in DOMAIN t.nodes
          /\ \A path \in ArenaArgs : ~ArenaCall(path).panic

\* C37: the bookkeeping of the arena holds in every tree, and size is the
\* number of nodes linked from the root.
C37_Bookkeeping ==
    /\ Bookkeeping(trees[1])
    /\ ~only_repo_root(trees[1]) =>
          trees[1].size = Cardinality(ReachedFrom(trees[1], 0, NodesLen(trees[1])))

\* the bookkeeping without the count of the linked nodes
BookkeepingCounts == Bookkeeping(trees[1])

\* a valid node that is not linked from the root is counted in size
CountedUnlinked ==
    /\ last.op = "add_path"
    /\ ~only_repo_root(trees[1])
    /\ trees[1].size > Cardinality(ReachedFrom(trees[1], 0, NodesLen(trees[1])))

(***************************************************************************)
(* Claims on the commits that succeed                                      *)
(***************************************************************************)
\* the paths of the entries of the staging index with a change of kinds
StagedAs(index_lines, kinds) ==
    {index_lines[i][3] : i \in {j \in 1..Len(index_lines) : index_lines[j][4] \in kinds}}

\* a track without -a ran on a staging index that was not empty and whose
\* New and Mod files are on disk
TrackOnDisk ==
    /\ last.op = "track" /\ ~last.all
    /\ last.index_before # <<>>
    /\ \A p \in StagedAs(last.index_before, {"New", "Mod"}) : wd[p].kind = "file"

\* the staging index deleted every file of the tree of the previous commit
DeletesAll ==
    /\ last.head_before # NoHead
    /\ StagedAs(last.index_before, {"New", "Mod"}) = {}
    /\ DOMAIN TreeOf(Repo, last.head_before).val \subseteq StagedAs(last.index_before, {"Del"})

\* C38: a commit of a staging index that is not empty and whose New and Mod
\* files are on disk succeeds: HEAD advances to the new commit record and
\* the index is emptied; when the index deletes every tracked file the tree
\* of the new commit flattens to the empty mapping.
C38_CommitSucceeds ==
    TrackOnDisk =>
        /\ last.result = "committed"
        /\ head # last.head_before /\ head \in DOMAIN commits
        /\ index = <<>>
        /\ DeletesAll => HeadTree.ok /\ HeadTree.val = EmptyMap

\* the same when a file of the new tree is on disk: a staged New or Mod
\* file, or a file of the previous commit that is not staged
CommitSucceedsNotEmpty ==
    (/\ TrackOnDisk
     /\ \/ StagedAs(last.index_before, {"New", "Mod"}) # {}
        \/ /\ last.head_before # NoHead
           /\ \E p \in DOMAIN TreeOf(Repo, last.head_before).val :
                 /\ p \notin StagedAs(last.index_before, {"Del"})
                 /\ wd[p].kind = "file")
    => /\ last.result = "committed"
       /\ head # last.head_before /\ head \in DOMAIN commits
       /\ index = <<>>

\* the commit that deletes every tracked file fails
DeleteAllFails ==
    /\ TrackOnDisk /\ DeletesAll
    /\ last.result # "committed"
    /\ head = last.head_before

(***************************************************************************)
(* Claims on the commit a fallback leaves in HEAD                          *)
(***************************************************************************)
\* C39: after a successful fallback to an existing commit, the tree of the
\* commit in HEAD flattens to the mapping the tree of the target flattens
\* to.
C39_FallbackTree ==
    FellBack =>
        /\ HeadTree.ok /\ TreeOf(Repo, last.arg).ok
        /\ HeadTree.val = TreeOf(Repo, last.arg).val

\* the same for a fallback from a working directory that was as HEAD had
\* it, when no file outside the tree of the target is left on disk and
\* .gyatignore matches no file of the target
FallbackTreeClean ==
    (/\ FellBack /\ last.clean_before
     /\ WdFiles \subseteq DOMAIN TreeOf(Repo, last.arg).val
     /\ \A p \in DOMAIN TreeOf(Repo, last.arg).val : ~is_match(gyatignore, p))
    => /\ HeadTree.ok /\ TreeOf(Repo, last.arg).ok
       /\ HeadTree.val = TreeOf(Repo, last.arg).val

\* a fallback committed a file that the target does not have
FallbackCommitsUntracked ==
    /\ FellBack /\ last.created # {}
    /\ \E p \in DOMAIN HeadTree.val : p \notin DOMAIN TreeOf(Repo, last.arg).val

(***************************************************************************)
(* Claims on the parent links                                              *)
(***************************************************************************)
\* following the parent links from the node i reaches the root within fuel
\* links
RECURSIVE ReachesRoot(_, _, _)
ReachesRoot(t, i, fuel) ==
    IF i = 0 THEN TRUE
    ELSE IF fuel = 0 \/ i \notin DOMAIN t.nodes THEN FALSE
    ELSE ReachesRoot(t, t.nodes[i].parent, fuel - 1)

\* the parent links of every node lead to the root, through no node twice
ParentsLeadToRoot(t) ==
    \A i \in DOMAIN t.nodes : ReachesRoot(t, i, NodesLen(t))

\* C40: every valid node but the root has a valid parent that lists it as a
\* child under its name, and the parent links of every node lead to the
\* root, so that relative_path and leaves terminate.
C40_ParentTree ==
    /\ \A i \in DOMAIN trees[1].nodes \ {0} :
          is_valid(trees[1].nodes[i]) =>
              /\ trees[1].nodes[i].parent \in DOMAIN trees[1].nodes
              /\ is_valid(trees[1].nodes[trees[1].nodes[i].parent])
              /\ trees[1].nodes[i].filename
                    \in DOMAIN trees[1].nodes[trees[1].nodes[i].parent].children
              /\ trees[1].nodes[trees[1].nodes[i].parent]
                    .children[trees[1].nodes[i].filename] = i
    /\ ParentsLeadToRoot(trees[1])

\* the parent links alone
ParentLinksEnd == ParentsLeadToRoot(trees[1])

\* a valid node whose parent was freed
ParentFreed ==
    /\ last.op = "add_path"
    /\ \E i \in DOMAIN trees[1].nodes \ {0} :
          /\ is_valid(trees[1].nodes[i])
          /\ ~is_valid(trees[1].nodes[trees[1].nodes[i].parent])

====
